---- MODULE Spec2Model ----
(***************************************************************************)
(* Model of the status/diff caching and reconciliation engine of the SF    *)
(* Metadata Tracker extension: the org connection cache with its single-   *)
(* flight guard, the metadata status cache and its batch planner, the diff *)
(* result cache, the content comparison with its scratch directories, the  *)
(* file decoration provider, the status bar, and the prefetch pipeline.    *)
(*                                                                         *)
(* JavaScript runs the extension on one thread.  An async function runs    *)
(* without interruption up to its next await; every action below is one    *)
(* such run of one task.  A task is a process p with a program counter     *)
(* pc[p], a stack of return labels stack[p] and its locals loc[p].         *)
(* The return of an awaited function to its caller is a step of its own:   *)
(* the microtask that resumes the caller.                                  *)
(***************************************************************************)
EXTENDS Integers, Sequences, FiniteSets, TLC

\* ------------------------------------------------------------------ bounds
NumProcs == 2
NumWorkers == 2
MaxChecks == 2
MaxTicks == 1
MaxLines == 2
MaxCount == 23
MaxChars == 5

\* ------------------------------------------------------- program constants
\* Date.now() - orgConnectionCache.lastChecked < 300000
OrgCacheTTL == 300000
\* config.get('cacheTTL', 60): the default of the setting, in seconds
DefaultCacheTTLSeconds == 60
\* Date.now() - cached.timestamp < 60000 in compareFileWithOrg
DiffCacheTTL == 60000
\* const batchSize = 10 in batchCompareFilesWithOrg
RetrieveBatchSize == 10
\* Date.now() - cached.timestamp < 60000 in provideFileDecoration
DecorationCacheTTL == 60000
\* const metadataBatchSize = 50 and const compareBatchSize = 10 in
\* prefetchAllSalesforceFiles
MetadataBatchSize == 50
CompareBatchSize == 10
\* Date.now() - cached.timestamp < 300000 in getAggregateCoverage
CoverageCacheTTL == 300000

\* The tasks: the calls made by the extension's handlers and commands (Procs)
\* and the comparison promises a prefetch run starts (Workers).
Procs == 1..NumProcs
Workers == (NumProcs + 1)..(NumProcs + NumWorkers)
Tasks == Procs \cup Workers

VARIABLES
  now,                        \* Date.now(), in milliseconds
  ticks,                      \* how often the clock has advanced
  cliInstalled,               \* cliStatusCache.installed: "false", or "not_false"
                              \* (null or true, which the code does not tell apart)
  orgConnectionCache,         \* [connected, lastChecked, errorType]
  pendingOrgConnectionCheck,  \* 0 (null) or the index in checks of the promise
  checks,                     \* the connection check promises created so far
  sourceStatusCache,          \* Map: path -> [timestamp, data]
  fileDiffCache,              \* Map: path -> [hasDifference, isOrgNewer, isNew, timestamp]
  decorationCache,            \* provider._decorationCache: path -> [timestamp, decoration]
  pendingUpdates,             \* provider._pendingUpdates; the timer is set iff not empty
  statusBar,                  \* what syncStatusBarItem shows, and for which file
  prefetchBar,                \* isPrefetching, and what prefetchStatusBarItem shows
  tempDirs,                   \* the scratch directories that exist on disk
  pc, stack, loc,             \* the tasks
  run,                        \* the prefetch run
  coverageCache               \* Map: 'type:name' -> [timestamp, data]

timeVars == <<now, ticks>>
envVars == <<cliInstalled>>
connVars == <<orgConnectionCache, pendingOrgConnectionCheck, checks>>
cacheVars == <<sourceStatusCache, fileDiffCache>>
uiVars == <<decorationCache, pendingUpdates, statusBar, prefetchBar>>
fsVars == <<tempDirs>>
procVars == <<pc, stack, loc>>
pipeVars == <<run>>
covVars == <<coverageCache>>
vars == <<timeVars, envVars, connVars, cacheVars, uiVars, fsVars, procVars, pipeVars,
          covVars>>

\* ------------------------------------------------------------------ paths

\* A local path is a source file of the project (its base, here the Apex
\* classes force-app/main/default/classes/A.cls, B.cls, ..., the trigger
\* force-app/main/default/triggers/T.trigger, and the files Wc.js and helper.js
\* of the Lightning web component force-app/main/default/lwc/Wc), written with
\* '/' or with '\' separators, followed by meta suffixes '-meta.xml'.
ClassNames ==
  <<
    "A", "B", "C", "D", "E", "F", "G", "H", "I", "J", "K", "L", "M", "N",
    "O", "P", "Q", "R", "S", "U", "V", "W", "X", "Y", "Z", "AA", "AB",
    "AC", "AD", "AE", "AF", "AG", "AH", "AI", "AJ", "AK", "AL", "AM",
    "AN", "AO", "AP", "AQ", "AR", "AS", "AT", "AU", "AV", "AW", "AX",
    "AY", "AZ"
  >>
ClassBases == {ClassNames[i] : i \in 1..Len(ClassNames)}
TriggerBases == {"T"}
BundleBases == {"Wc"}
Bases == ClassBases \cup TriggerBases \cup BundleBases
AllPaths == [base : Bases, bs : BOOLEAN, meta : {0, 1, 2}, part : {"src", "main", "helper"}]

SourcePath(b) == [base |-> b, bs |-> FALSE, meta |-> 0, part |-> "src"]

\* The file part of the bundle b: lwc/b/b.js (main) or lwc/b/helper.js
BundleFile(b, part) == [base |-> b, bs |-> FALSE, meta |-> 0, part |-> part]

\* p + '-meta.xml'
Sidecar(f) == [f EXCEPT !.meta = @ + 1]

\* filePath.replace(/\\/g, '/').replace(/-meta\.xml$/, ''), the key of the
\* status cache in getFileOrgStatus and batchGetFileOrgStatus
StatusKey(f) ==
  [f EXCEPT !.bs = FALSE, !.meta = IF f.meta > 0 THEN f.meta - 1 ELSE 0]

\* normalizeFilePath: one '-meta.xml' removed if the path ends with it, then
\* the separators unified
normalizeFilePath(f) ==
  LET normalized == IF f.meta > 0 THEN [f EXCEPT !.meta = @ - 1] ELSE f
  IN [normalized EXCEPT !.bs = FALSE]

\* _getParentFilePath and the parentPath of getFileDiffStatus:
\* filePath.endsWith('-meta.xml') ? filePath.replace('-meta.xml', '') : filePath
getParentFilePath(f) == IF f.meta > 0 THEN [f EXCEPT !.meta = @ - 1] ELSE f

NoInfo == [type |-> "null", name |-> "null"]

\* getMetadataTypeFromPath for the files of classes/, triggers/ and lwc/: the
\* path must include '/classes/' and the file name end with '.cls', or include
\* '/triggers/' and end with '.trigger', or include '/lwc/', and then every
\* file below lwc/<name>/ is of the bundle <name>.
getMetadataTypeFromPath(f) ==
  IF f.bs THEN NoInfo
  ELSE IF f.base \in BundleBases
  THEN [type |-> "LightningComponentBundle", name |-> f.base]
  ELSE IF f.meta = 0
  THEN [type |-> IF f.base \in TriggerBases THEN "ApexTrigger" ELSE "ApexClass",
        name |-> f.base]
  ELSE NoInfo

\* A JavaScript Map: a function on its keys.  get of a key that is not set
\* gives undefined (NoEntry).
NoEntry == [none |-> TRUE]
EmptyMap == [k \in {} |-> NoEntry]
MapGet(map, k) == IF k \in DOMAIN map THEN map[k] ELSE NoEntry
MapSet(map, k, v) == [x \in DOMAIN map \cup {k} |-> IF x = k THEN v ELSE map[x]]
MapDelete(map, k) == [x \in DOMAIN map \ {k} |-> map[x]]

\* The prefetch run: its phase, its metadata batches and the one in flight,
\* its counters and progress, the files onFileCompared was called for, and
\* the notifications it fired: per file (fire(uri)), for all files
\* (fire(undefined)), and per file after the one for all files.
NoSummary == [shown |-> FALSE, total |-> 0, localChanges |-> 0, orgNewer |-> 0]

NoRun ==
  [phase |-> "idle",
   found |-> 0,       \* allFiles.length
   batches |-> <<>>,  \* the metadata batches, in the order of the two loops
   i |-> 0,           \* the metadata batch the loop is at
   total |-> 0,       \* totalUniqueFiles
   metaCount |-> 0,   \* processedMetadataCount
   cmpCount |-> 0,    \* processedCompareCount
   progress |-> 0,    \* what showPrefetchProgress was last given
   fetched |-> {},    \* the files whose metadata fetch has returned
   handed |-> {},     \* the files given to batchCompareFilesWithOrg
   spawned |-> 0,     \* comparisonPromises.length
   settled |-> 0,     \* how many of the comparison promises have settled
   emitted |-> {}, perFile |-> 0, final |-> 0, late |-> 0, summary |-> NoSummary]

\* ----------------------------------------------------------- status data

\* LastModifiedDate of a record of the org, as a time in milliseconds.
RemoteDates == {500, 1500}

StatusData(date) ==
  [error |-> "none", lastModifiedBy |-> "user", lastModifiedDate |-> date]

ErrData(msg) == [error |-> msg, lastModifiedBy |-> "", lastModifiedDate |-> 0]

NotFoundData == ErrData("Component not found in org")

NoData == ErrData("pending")

\* ------------------------------------------------------------ connection

\* getCacheTTL(): (config.get('cacheTTL', 60) || 60) * 1000
getCacheTTL == DefaultCacheTTLSeconds * 1000

\* The outcomes of 'sf org display --json' under execCommandWithTimeout: the
\* command's JSON with status 0, its JSON with another status, or an error
\* thrown (rejected) whose message decides the error type.
ConnOutcomes ==
  {"ok", "status_nonzero", "err_no_default_org", "err_expired", "err_enoent",
   "err_timeout", "err_parse"}

\* The errorType checkOrgConnection derives from an outcome.
ConnErrorType(o) ==
  CASE o = "ok" -> "none"
    [] o = "status_nonzero" -> "no_default_org"
    [] o = "err_no_default_org" -> "no_default_org"
    [] o = "err_expired" -> "auth_expired"
    [] o = "err_enoent" -> "cli_not_installed"
    [] OTHER -> "unknown"

ConnResult(o) == [connected |-> (o = "ok"), errorType |-> ConnErrorType(o)]

NoResult == [connected |-> FALSE, errorType |-> "pending"]

EmptyOrgCache == [connected |-> FALSE, lastChecked |-> 0, errorType |-> "none"]

\* A connection cache that only keeps a successful check
OrgCacheFreshMutant ==
  /\ orgConnectionCache.lastChecked # 0
  /\ now - orgConnectionCache.lastChecked < OrgCacheTTL
  /\ orgConnectionCache.connected

\* orgConnectionCache.lastChecked && Date.now() - lastChecked < 300000
OrgCacheFresh ==
  /\ orgConnectionCache.lastChecked # 0
  /\ now - orgConnectionCache.lastChecked < OrgCacheTTL

InFlightChecks == {i \in 1..Len(checks) : checks[i].state = "inflight"}

\* A settled promise that no task holds any more is garbage: its result is
\* forgotten.
Collect(l) ==
  [i \in DOMAIN checks |->
     IF checks[i].state = "settled" /\ \A p \in Tasks : l[p].waitOn # i
     THEN [state |-> "settled", result |-> NoResult]
     ELSE checks[i]]

\* checkOrgConnection without its guard: every call starts a check
ConnStartsCheckMutant(pending) == TRUE

\* if (pendingOrgConnectionCheck) return it; otherwise a check is started
ConnStartsCheck(pending) == pending = 0

\* The part of checkOrgConnection that runs when it is called, given the
\* guard and the promises as they are at the call: the CLI check, the cache
\* check, joining the pending promise, or starting the one remote check.  The
\* answer says how the call is served, the promise it waits on, and the
\* guard and the promises after the call.

ConnDecide(pending, chks) ==
  IF cliInstalled = "false" THEN
    [how |-> "cli", waitOn |-> 0, pending |-> pending, checks |-> chks,
     res |-> [connected |-> FALSE, errorType |-> "cli_not_installed"]]
  ELSE IF OrgCacheFresh THEN
    [how |-> "cached", waitOn |-> 0, pending |-> pending, checks |-> chks,
     res |-> [connected |-> orgConnectionCache.connected,
              errorType |-> orgConnectionCache.errorType]]
  ELSE IF ~ConnStartsCheck(pending) THEN
    [how |-> "joined", waitOn |-> pending, pending |-> pending, checks |-> chks,
     res |-> NoResult]
  ELSE
    [how |-> "owner", waitOn |-> Len(chks) + 1, pending |-> Len(chks) + 1,
     checks |-> Append(chks, [state |-> "inflight", result |-> NoResult]),
     res |-> NoResult]

\* How a call was served (mode) and how many commands it issued (cmds) are
\* recorded for the calls made directly by the environment.
ConnNote(l, ret, mode) == IF ret = "check_ret" THEN [l EXCEPT !.mode = mode] ELSE l

ConnResumed(l, ret, res) ==
  IF ret = "check_ret" THEN [l EXCEPT !.connRes = res]
  ELSE [l EXCEPT !.connRes = res, !.mode = "none", !.waitOn = 0, !.cmds = 0]

\* Where the calling task stands after the call decided as d: at ret with the
\* result in its connRes, or awaiting the promise with ret on its stack.  stk
\* and l are the caller's stack and locals at the call.
ConnCaller(d, ret, stk, l) ==
  IF d.how \in {"cli", "cached"} THEN
    [pc |-> ret, stack |-> stk,
     loc |-> [ConnNote(l, ret, d.how) EXCEPT !.connRes = d.res]]
  ELSE IF d.how = "joined" THEN
    [pc |-> "conn_join", stack |-> <<ret>> \o stk,
     loc |-> [l EXCEPT !.mode = "joined", !.waitOn = d.waitOn]]
  ELSE
    [pc |-> "conn_own", stack |-> <<ret>> \o stk,
     loc |-> [l EXCEPT !.mode = "owner", !.waitOn = d.waitOn, !.cmds = @ + 1]]

\* Task p calls checkOrgConnection().
ConnEnter(p, ret, stk, l) ==
  LET d == ConnDecide(pendingOrgConnectionCheck, checks)
      t == ConnCaller(d, ret, stk, l)
  IN /\ Len(d.checks) <= MaxChecks
     /\ pendingOrgConnectionCheck' = d.pending
     /\ checks' = d.checks
     /\ pc' = [pc EXCEPT ![p] = t.pc]
     /\ stack' = [stack EXCEPT ![p] = t.stack]
     /\ loc' = [loc EXCEPT ![p] = t.loc]
     /\ UNCHANGED orgConnectionCache

\* The outcomes of a remote command that reach the function as an error
\* thrown: execCommandWithTimeout rejected, or JSON.parse or a property
\* access on the parsed answer threw.
ThrownOutcomes ==
  {"err_no_default_org", "err_expired", "err_enoent", "err_timeout", "err_parse",
   "err_process"}

\* The try blocks without the one of getAggregateCoverage
\* A batchGetFileOrgStatus whose query stands outside its try block
TryBlocksBatchMutant ==
  {"conn_remote", "gs_query", "cmp_retrieve", "bc_retrieve", "cov_id", "cov_query"}

TryBlocksMutant == {"conn_remote", "gs_query", "bs_query", "cmp_retrieve", "bc_retrieve"}

\* The awaits of a remote command that stand inside a try block whose catch
\* block returns a value: in the promise of checkOrgConnection, in
\* getFileOrgStatus, batchGetFileOrgStatus, compareFileWithOrg,
\* batchCompareFilesWithOrg (inside its loop) and getAggregateCoverage (both
\* of its queries).
TryBlocks ==
  {"conn_remote", "gs_query", "bs_query", "cmp_retrieve", "bc_retrieve", "cov_id",
   "cov_query"}

\* How the promise of an async function stands after the command awaited at
\* where ended with o: an error thrown outside every try block rejects it.
Settle(prev, where, o) ==
  IF prev = "rejected" \/ (o \in ThrownOutcomes /\ where \notin TryBlocks)
  THEN "rejected"
  ELSE "resolved"

RejectedResult == [connected |-> FALSE, errorType |-> "rejected"]

\* 'sf org display --json' returns, fails or times out: the body of the
\* pending promise stores the outcome in orgConnectionCache and settles.
ConnRemoteReturn(i, o) ==
  /\ i \in InFlightChecks
  /\ orgConnectionCache' =
       [connected |-> (o = "ok"), lastChecked |-> now, errorType |-> ConnErrorType(o)]
  /\ checks' = [checks EXCEPT ![i] =
                  [state |-> "settled",
                   result |-> IF Settle("none", "conn_remote", o) = "rejected"
                              THEN RejectedResult ELSE ConnResult(o)]]
  /\ UNCHANGED <<pendingOrgConnectionCheck, timeVars, envVars, cacheVars, uiVars,
                 fsVars, procVars, pipeVars, covVars>>

\* An owner without the finally block: the guard keeps the settled promise
ConnOwnerResumeMutant(p) ==
  /\ pc[p] = "conn_own"
  /\ checks[loc[p].waitOn].state = "settled"
  /\ loc' = [loc EXCEPT ![p] =
               ConnResumed(@, Head(stack[p]), checks[loc[p].waitOn].result)]
  /\ pc' = [pc EXCEPT ![p] = Head(stack[p])]
  /\ stack' = [stack EXCEPT ![p] = Tail(@)]
  /\ UNCHANGED <<orgConnectionCache, pendingOrgConnectionCheck, checks, timeVars, envVars,
                 cacheVars, uiVars, fsVars, pipeVars, covVars>>

\* The caller that started the check resumes from 'await pendingOrgConnectionCheck':
\* the finally block resets the guard, then the result is returned.
ConnOwnerResume(p) ==
  /\ pc[p] = "conn_own"
  /\ checks[loc[p].waitOn].state = "settled"
  /\ pendingOrgConnectionCheck' = 0
  /\ loc' = [loc EXCEPT ![p] =
               ConnResumed(@, Head(stack[p]), checks[loc[p].waitOn].result)]
  /\ checks' = Collect(loc')
  /\ pc' = [pc EXCEPT ![p] = Head(stack[p])]
  /\ stack' = [stack EXCEPT ![p] = Tail(@)]
  /\ UNCHANGED <<orgConnectionCache, timeVars, envVars, cacheVars, uiVars,
                 fsVars, pipeVars, covVars>>

\* A caller that was handed the pending promise resumes with its result.
ConnJoinerResume(p) ==
  /\ pc[p] = "conn_join"
  /\ checks[loc[p].waitOn].state = "settled"
  /\ loc' = [loc EXCEPT ![p] =
               ConnResumed(@, Head(stack[p]), checks[loc[p].waitOn].result)]
  /\ checks' = Collect(loc')
  /\ pc' = [pc EXCEPT ![p] = Head(stack[p])]
  /\ stack' = [stack EXCEPT ![p] = Tail(@)]
  /\ UNCHANGED <<orgConnectionCache, pendingOrgConnectionCheck, timeVars, envVars,
                 cacheVars, uiVars, fsVars, pipeVars, covVars>>

\* clearOrgCache(): the connection cache is reset and the status cache emptied;
\* pendingOrgConnectionCheck is left as it is.
clearOrgCache ==
  /\ orgConnectionCache' = EmptyOrgCache
  /\ sourceStatusCache' = EmptyMap
  /\ UNCHANGED <<pendingOrgConnectionCheck, checks, fileDiffCache, timeVars, envVars,
                 uiVars, fsVars, procVars, pipeVars, covVars>>

\* checkSfCliInstalled() runs 'sf --version' and stores whether it succeeded:
\* cliStatusCache.installed becomes true or false.
checkSfCliInstalled(found) ==
  /\ cliInstalled' = IF found THEN "not_false" ELSE "false"
  /\ UNCHANGED <<timeVars, connVars, cacheVars, uiVars, fsVars, procVars, pipeVars,
                 covVars>>

\* Time passes.
Tick(d) ==
  /\ ticks < MaxTicks
  /\ now' = now + d
  /\ ticks' = ticks + 1
  /\ UNCHANGED <<envVars, connVars, cacheVars, uiVars, fsVars, procVars, pipeVars, covVars>>

\* ------------------------------------------------------------------ tasks

\* getFileDiffStatus's defaultResult
NotCompared == [hasDifference |-> FALSE, isOrgNewer |-> FALSE, isCompared |-> FALSE]

\* The status bar item: hidden, or a text shown for a file
NoBar == [text |-> "hidden", file |-> SourcePath("A")]

\* The prefetch item: isPrefetching false and the item hidden
NoPrefetchBar == [isPrefetching |-> FALSE, shown |-> FALSE, text |-> <<"none">>, timers |-> 0]

\* The result of a comparison
CompareResult(hasDifference, error, isNew) ==
  [hasDifference |-> hasDifference, error |-> error, isNew |-> isNew]

NoCompare == CompareResult(FALSE, "pending", FALSE)

\* path.join(os.tmpdir(), `sf-metadata-compare-${Date.now()}`) and
\* `sf-metadata-batch-${Date.now()}`: the name of a scratch directory is its
\* kind and the millisecond in which it is made.
TempDir(kind) == [kind |-> kind, at |-> now]

NoDir == [kind |-> "none", at |-> 0]


InitLoc ==
  [connRes |-> NoResult, mode |-> "none", waitOn |-> 0,
   cmds |-> 0,      \* how many 'sf org display' commands the task has issued
   path |-> SourcePath("A"), prefer |-> FALSE, fileRes |-> NoData,
   files |-> {}, results |-> <<>>, uncached |-> {},
   qnames |-> {},   \* the names the batch query asked for
   returned |-> {}, \* the names the batch query returned records for
   qout |-> "none", \* how the metadata query ended
   queries |-> 0,   \* how many metadata queries the task's call has issued
   cmpRes |-> NoCompare,
   localContent |-> <<>>, \* the local file as read by the comparison
   orgContent |-> <<>>,   \* the retrieved file as read by the comparison
   sameText |-> FALSE,    \* whether the two were written from the same lines
   settle |-> "none",     \* whether the promise of the call resolved or rejected
   covKey |-> "A",        \* the class getAggregateCoverage was asked about
   covRes |-> [kind |-> "pending", covered |-> 0, uncovered |-> 0, percentage |-> 0],
   cfiles |-> <<>>, \* the files of a batchCompareFilesWithOrg call
   k |-> 0,         \* the retrieve batch the call is at
   cmpMap |-> EmptyMap, \* the map the call returns: path -> hasDifference
   cb |-> FALSE,    \* whether the call was given onFileCompared
   events |-> <<>>, \* what the loop over the last retrieved batch did, in order
   mbatch |-> <<>>, \* the metadataBatch of a comparison promise
   j |-> 0,         \* the compare batch the promise is at
   uri |-> SourcePath("A"), \* the file provideFileDecoration was asked about
   diff |-> NotCompared,    \* diffStatus
   deco |-> "none",         \* the decoration returned
   dir |-> NoDir,   \* the scratch directory of the retrieve in flight
   dirs |-> {},     \* the scratch directories the call has created
   stale |-> {}]    \* the connection checks in flight when the task cleared the cache

\* A caller (status bar, command, decoration) calls checkOrgConnection().
CallCheckOrgConnection(p) ==
  /\ pc[p] = "idle"
  /\ ConnEnter(p, "check_ret", stack[p], loc[p])
  /\ UNCHANGED <<timeVars, envVars, cacheVars, uiVars, fsVars, pipeVars, covVars>>

\* The labels at which a call made by the environment has returned.
ReturnLabels ==
  {"check_ret", "status_ret", "batch_ret", "inval_ret", "compare_ret", "bcompare_ret",
   "deco_ret", "sync_ret", "prefetch_ret", "coverage_ret", "clear_ret"}

\* The caller has the result of its call; the task ends.
TaskReturn(p) ==
  /\ pc[p] \in ReturnLabels
  /\ pc' = [pc EXCEPT ![p] = "idle"]
  /\ loc' = [loc EXCEPT ![p] = InitLoc]
  /\ checks' = Collect(loc')
  /\ UNCHANGED <<stack, orgConnectionCache, pendingOrgConnectionCheck, timeVars, envVars,
                 cacheVars, uiVars, fsVars, pipeVars, covVars>>

\* A function returns to its caller: the task goes on at the label on top of
\* its stack, with the locals l.
Return(p, l) ==
  /\ pc' = [pc EXCEPT ![p] = Head(stack[p])]
  /\ stack' = [stack EXCEPT ![p] = Tail(@)]
  /\ loc' = [loc EXCEPT ![p] = l]

\* ------------------------------------------------------- getFileOrgStatus

\* A status cache whose entries never expire
FreshEntryMutant(e) == e # NoEntry

\* cached && Date.now() - cached.timestamp < cacheTTL
FreshEntry(e) == e # NoEntry /\ now - e.timestamp < getCacheTTL

\* The first fresh entry under pathsToCheck = [filePath, normalizedPath]
StatusCacheHit(f) ==
  IF FreshEntry(MapGet(sourceStatusCache, f)) THEN MapGet(sourceStatusCache, f)
  ELSE IF FreshEntry(MapGet(sourceStatusCache, StatusKey(f)))
       THEN MapGet(sourceStatusCache, StatusKey(f))
  ELSE NoEntry

\* The first entry of any age under pathsToCheck (the preferCache lookup)
StatusCacheAny(f) ==
  IF MapGet(sourceStatusCache, f) # NoEntry THEN MapGet(sourceStatusCache, f)
  ELSE MapGet(sourceStatusCache, StatusKey(f))

\* What 'sf data query' for one component can do: return a record, return no
\* record, return JSON with a status other than 0, or make execCommandWithTimeout
\* or JSON.parse throw.
QueryErrors == {"err_timeout", "err_process", "err_parse"}
QueryOutcomes == {"found", "empty", "status_nonzero"} \cup QueryErrors

\* getFileOrgStatus(filePath, preferCache) is called: it first awaits
\* checkOrgConnection().
GetStatusEnter(p, f, prefer, ret, stk, l) ==
  ConnEnter(p, "gs_conn", <<ret>> \o stk,
            [l EXCEPT !.path = f, !.prefer = prefer, !.queries = 0, !.qout = "none"])

CallGetFileOrgStatus(p, f, prefer) ==
  /\ pc[p] = "idle"
  /\ GetStatusEnter(p, f, prefer, "status_ret", stack[p], loc[p])
  /\ UNCHANGED <<timeVars, envVars, cacheVars, uiVars, fsVars, pipeVars, covVars>>

\* getFileOrgStatus after the connection check: the cache lookups, the
\* classification of the path, and the query that is sent.
GetStatusAfterConn(p) ==
  /\ pc[p] = "gs_conn"
  /\ LET l == loc[p]
         f == l.path
     IN IF ~l.connRes.connected THEN
          Return(p, [l EXCEPT !.fileRes = ErrData("Not connected to org")])
        ELSE IF StatusCacheHit(f) # NoEntry THEN
          Return(p, [l EXCEPT !.fileRes = StatusCacheHit(f).data])
        ELSE IF l.prefer /\ StatusCacheAny(f) # NoEntry THEN
          Return(p, [l EXCEPT !.fileRes = StatusCacheAny(f).data])
        ELSE IF getMetadataTypeFromPath(f) = NoInfo THEN
          Return(p, [l EXCEPT !.fileRes = ErrData("Not a Salesforce metadata file")])
        ELSE
          /\ pc' = [pc EXCEPT ![p] = "gs_query"]
          /\ loc' = [loc EXCEPT ![p].queries = @ + 1]
          /\ UNCHANGED stack
  /\ UNCHANGED <<timeVars, envVars, connVars, cacheVars, uiVars, fsVars, pipeVars, covVars>>

\* The answer to the query of getFileOrgStatus: a record is cached under the
\* normalized path, and so is 'Component not found in org' whenever the answer
\* holds no record; an error thrown is returned and not cached.
GetStatusQueryReturn(p, o, date) ==
  /\ pc[p] = "gs_query"
  /\ LET l == loc[p]
         data == IF o = "found" THEN StatusData(date)
                 ELSE IF o \in QueryErrors THEN ErrData(o)
                 ELSE NotFoundData
     IN /\ sourceStatusCache' =
             IF o \in QueryErrors THEN sourceStatusCache
             ELSE MapSet(sourceStatusCache, StatusKey(l.path),
                         [timestamp |-> now, data |-> data])
        /\ Return(p, [l EXCEPT !.fileRes = data, !.qout = o,
                               !.settle = Settle(@, "gs_query", o)])
  /\ UNCHANGED <<fileDiffCache, timeVars, envVars, connVars, uiVars, fsVars, pipeVars, covVars>>

\* ------------------------------------------------- batchGetFileOrgStatus

\* The files of a batch: {filePath, name}, the name being the component's.
BatchName(f) == f.base

\* sourceStatusCache.get(normalizedPath) || sourceStatusCache.get(file.filePath)
BatchCached(f) ==
  IF MapGet(sourceStatusCache, StatusKey(f)) # NoEntry
  THEN MapGet(sourceStatusCache, StatusKey(f))
  ELSE MapGet(sourceStatusCache, f)

\* A batch that gives every uncached file a record, returned or not
BatchFileDataMutant(f, returned, date) == StatusData(date)

\* The status data of one uncached file of a batch whose query returned the
\* records of the names in returned: recordMap.get(file.name), or not found.
BatchFileData(f, returned, date) ==
  IF BatchName(f) \in returned THEN StatusData(date) ELSE NotFoundData

\* batchGetFileOrgStatus(metadataType, files) is called: no files, no work;
\* otherwise it first awaits checkOrgConnection().
BatchLoc(l0, files) ==
  [l0 EXCEPT !.files = files, !.results = <<>>, !.uncached = {},
             !.qnames = {}, !.returned = {}, !.qout = "none", !.queries = 0,
             !.settle = "none"]

BatchEnter(p, files, ret) ==
  LET l == BatchLoc(loc[p], files)
  IN IF files = {} THEN
       /\ pc' = [pc EXCEPT ![p] = ret]
       /\ loc' = [loc EXCEPT ![p] = l]
       /\ UNCHANGED <<stack, connVars>>
     ELSE ConnEnter(p, "bs_conn", <<ret>> \o stack[p], l)

CallBatchGetFileOrgStatus(p, files) ==
  /\ pc[p] = "idle"
  /\ BatchEnter(p, files, "batch_ret")
  /\ UNCHANGED <<timeVars, envVars, cacheVars, uiVars, fsVars, pipeVars, covVars>>

\* batchGetFileOrgStatus after the connection check: the cached files are
\* answered from the cache, and one query is sent for all the others.
BatchAfterConn(p) ==
  /\ pc[p] = "bs_conn"
  /\ LET l == loc[p]
         hits == {f \in l.files : FreshEntry(BatchCached(f))}
         uncachedFiles == l.files \ hits
         results == [f \in hits |-> BatchCached(f).data]
     IN IF ~l.connRes.connected THEN
          Return(p, [l EXCEPT !.results =
                       [f \in l.files |-> ErrData("Not connected to org")]])
        ELSE IF uncachedFiles = {} THEN
          Return(p, [l EXCEPT !.results = results])
        ELSE
          /\ pc' = [pc EXCEPT ![p] = "bs_query"]
          /\ loc' = [loc EXCEPT ![p] =
                       [l EXCEPT !.results = results, !.uncached = uncachedFiles,
                                 !.qnames = {BatchName(f) : f \in uncachedFiles},
                                 !.queries = @ + 1]]
          /\ UNCHANGED stack
  /\ UNCHANGED <<timeVars, envVars, connVars, cacheVars, uiVars, fsVars, pipeVars, covVars>>

\* The answer to the batch query: with status 0 the records of the names in
\* returned, with another status no record; every uncached file gets its
\* entry, cached under the normalized path.  An error thrown gives every
\* uncached file the error, and nothing is cached.
BatchQueryReturn(p, o, returned, date) ==
  /\ pc[p] = "bs_query"
  /\ returned \subseteq loc[p].qnames
  /\ o # "ok" => returned = {}
  /\ LET l == loc[p]
         fresh == [f \in l.uncached |->
                     IF o \in QueryErrors THEN ErrData(o)
                     ELSE BatchFileData(f, returned, date)]
         keys == {StatusKey(f) : f \in l.uncached}
         fileOf(k) == CHOOSE f \in l.uncached : StatusKey(f) = k
     IN /\ sourceStatusCache' =
             IF o \in QueryErrors THEN sourceStatusCache
             ELSE [k \in DOMAIN sourceStatusCache \cup keys |->
                     IF k \in keys THEN [timestamp |-> now, data |-> fresh[fileOf(k)]]
                     ELSE sourceStatusCache[k]]
        /\ Return(p, [l EXCEPT !.results =
                        [f \in l.files |-> IF f \in l.uncached THEN fresh[f]
                                           ELSE l.results[f]],
                               !.returned = returned, !.qout = o,
                               !.settle = Settle(@, "bs_query", o)])
  /\ UNCHANGED <<fileDiffCache, timeVars, envVars, connVars, uiVars, fsVars, pipeVars, covVars>>

\* ------------------------------------------------------ compareFileWithOrg

\* An entry of the diff cache
DiffEntry(hasDifference, isOrgNewer, isNew) ==
  [hasDifference |-> hasDifference, isOrgNewer |-> isOrgNewer, isNew |-> isNew,
   timestamp |-> now]

\* What 'sf project retrieve start' for one component and the comparison can
\* do: the contents are equal or differ, the answer has a status other than 0
\* (with 'No source-backed components' or another message), the retrieved
\* file is not found, or the command or the parsing of its output throws.
CompareErrors == {"err_timeout", "err_parse"}
CompareOutcomes == {"equal", "differ", "no_source", "nonzero", "not_found"} \cup CompareErrors

\* cleanupTempDir(dir): fs.rmSync(dir, { recursive: true, force: true })
cleanupTempDir(dirs, dir) == dirs \ {dir}

\* compareFileWithOrg(filePath) is called: it first awaits checkOrgConnection().
CompareEnter(p, f, ret) ==
  ConnEnter(p, "cmp_conn", <<ret>> \o stack[p],
            [loc[p] EXCEPT !.path = f, !.cmpRes = NoCompare, !.dir = NoDir, !.dirs = {}])

CallCompareFileWithOrg(p, f) ==
  /\ pc[p] = "idle"
  /\ CompareEnter(p, f, "compare_ret")
  /\ UNCHANGED <<timeVars, envVars, cacheVars, uiVars, fsVars, pipeVars, covVars>>

\* compareFileWithOrg after the connection check: the diff cache lookup under
\* the path as given, the classification, and the scratch directory made
\* before the retrieve is sent.
CompareAfterConn(p) ==
  /\ pc[p] = "cmp_conn"
  /\ LET l == loc[p]
         f == l.path
         cached == MapGet(fileDiffCache, f)
         dir == TempDir("compare")
     IN IF ~l.connRes.connected THEN
          /\ Return(p, [l EXCEPT !.cmpRes = CompareResult(FALSE, "Not connected to org", FALSE)])
          /\ UNCHANGED tempDirs
        ELSE IF cached # NoEntry /\ now - cached.timestamp < DiffCacheTTL THEN
          /\ Return(p, [l EXCEPT !.cmpRes = CompareResult(cached.hasDifference, "none", FALSE)])
          /\ UNCHANGED tempDirs
        ELSE IF getMetadataTypeFromPath(f) = NoInfo THEN
          /\ Return(p, [l EXCEPT !.cmpRes =
                          CompareResult(FALSE, "Not a supported metadata type", FALSE)])
          /\ UNCHANGED tempDirs
        ELSE
          /\ tempDirs' = tempDirs \cup {dir}
          /\ pc' = [pc EXCEPT ![p] = "cmp_retrieve"]
          /\ loc' = [loc EXCEPT ![p] = [l EXCEPT !.dir = dir, !.dirs = {dir}]]
          /\ UNCHANGED stack
  /\ UNCHANGED <<timeVars, envVars, connVars, cacheVars, uiVars, pipeVars, covVars>>

\* The retrieve of compareFileWithOrg ends.  Every branch inside the try
\* calls cleanupTempDir before it returns; the catch block does not.
CompareRetrieveReturn(p, o) ==
  /\ pc[p] = "cmp_retrieve"
  /\ LET l == loc[p]
         f == l.path
     IN /\ fileDiffCache' =
             IF o \in {"equal", "differ"} THEN
               MapSet(fileDiffCache, f, DiffEntry(o = "differ", FALSE, FALSE))
             ELSE IF o = "no_source" THEN
               MapSet(fileDiffCache, f, DiffEntry(FALSE, FALSE, TRUE))
             ELSE fileDiffCache
        /\ tempDirs' = IF o \in CompareErrors THEN tempDirs
                       ELSE cleanupTempDir(tempDirs, l.dir)
        /\ Return(p, [l EXCEPT !.dir = NoDir, !.settle = Settle(@, "cmp_retrieve", o),
                               !.cmpRes =
                        CASE o \in {"equal", "differ"} -> CompareResult(o = "differ", "none", FALSE)
                          [] o = "no_source" -> CompareResult(FALSE, "none", TRUE)
                          [] o = "nonzero" -> CompareResult(FALSE, "Retrieve failed", FALSE)
                          [] o = "not_found" ->
                               CompareResult(FALSE, "Could not find retrieved file", FALSE)
                          [] OTHER -> CompareResult(FALSE, o, FALSE)])
  /\ UNCHANGED <<sourceStatusCache, timeVars, envVars, connVars, uiVars, pipeVars, covVars>>

\* ------------------------------------------------ batchCompareFilesWithOrg

\* fs.statSync(file.filePath).mtime.getTime() of the local files
LocalMTime == 1000

\* array.slice(i, i + n) for i = 0, n, 2n, ...
RECURSIVE Slices(_, _)
Slices(q, n) ==
  IF Len(q) = 0 THEN <<>>
  ELSE IF Len(q) <= n THEN <<q>>
  ELSE <<SubSeq(q, 1, n)>> \o Slices(SubSeq(q, n + 1, Len(q)), n)

FileType(f) == getMetadataTypeFromPath(f).type

\* The keys of filesByType, in the order a Map keeps: that of insertion
RECURSIVE TypeOrder(_, _)
TypeOrder(files, seen) ==
  IF files = <<>> THEN <<>>
  ELSE IF FileType(Head(files)) \in seen THEN TypeOrder(Tail(files), seen)
  ELSE <<FileType(Head(files))>> \o
       TypeOrder(Tail(files), seen \cup {FileType(Head(files))})

\* The batches of the two loops over the types and over the slices of a
\* type's files: for each type its files in slices of n; more says that
\* another slice of the same type follows (i + n < typeFiles.length).
RECURSIVE BatchesOf(_, _, _)
BatchesOf(types, files, n) ==
  IF types = <<>> THEN <<>>
  ELSE LET typeFiles == SelectSeq(files, LAMBDA f : FileType(f) = Head(types))
           slices == Slices(typeFiles, n)
       IN [i \in 1..Len(slices) |-> [files |-> slices[i], more |-> i < Len(slices)]]
          \o BatchesOf(Tail(types), files, n)

\* The retrieve batches of a call of batchCompareFilesWithOrg
RetrieveBatches(files) == BatchesOf(TypeOrder(files, {}), files, RetrieveBatchSize)

Range(q) == {q[i] : i \in 1..Len(q)}

\* A comparison that never finds the org newer
IsOrgNewerMutant(f) == FALSE

\* A comparison that takes the org for newer when it knows no date
IsOrgNewerUnknownMutant(f) ==
  LET cachedEntry == IF MapGet(sourceStatusCache, normalizeFilePath(f)) # NoEntry
                     THEN MapGet(sourceStatusCache, normalizeFilePath(f))
                     ELSE MapGet(sourceStatusCache, f)
  IN \/ cachedEntry = NoEntry
     \/ cachedEntry.data.lastModifiedDate = 0
     \/ cachedEntry.data.lastModifiedDate > LocalMTime

\* isOrgNewer of a file whose contents differ: the cached status entry, of
\* any age, under the normalized path or the path, and its lastModifiedDate
\* against the local file's modification time.
IsOrgNewer(f) ==
  LET cachedEntry == IF MapGet(sourceStatusCache, normalizeFilePath(f)) # NoEntry
                     THEN MapGet(sourceStatusCache, normalizeFilePath(f))
                     ELSE MapGet(sourceStatusCache, f)
  IN /\ cachedEntry # NoEntry
     /\ cachedEntry.data.lastModifiedDate # 0
     /\ cachedEntry.data.lastModifiedDate > LocalMTime

\* A diff cache that stores an entry for every file of the batch, compared
\* or not
DiffCacheAfterMutant(q, compared, diff) ==
  [key \in DOMAIN fileDiffCache \cup Range(q) |-> DiffEntry(key \in diff, FALSE, FALSE)]

\* A diff cache whose entries get their direction from the dates alone
DiffCacheAfterDatesMutant(q, compared, diff) ==
  LET idx(key) == {i \in 1..Len(q) : q[i] \in compared /\ key \in {normalizeFilePath(q[i]), q[i]}}
      last(key) == q[CHOOSE i \in idx(key) : \A j \in idx(key) : j <= i]
      keys == {normalizeFilePath(f) : f \in compared} \cup compared
  IN [key \in DOMAIN fileDiffCache \cup keys |->
        IF key \in keys
        THEN DiffEntry(last(key) \in diff, IsOrgNewer(last(key)), FALSE)
        ELSE fileDiffCache[key]]

\* The diff cache after the files in compared, of which those in diff differ,
\* were stored in the order of the batch q: each under its normalized path
\* and under its path.
DiffCacheAfter(q, compared, diff) ==
  LET idx(key) == {i \in 1..Len(q) : q[i] \in compared /\ key \in {normalizeFilePath(q[i]), q[i]}}
      last(key) == q[CHOOSE i \in idx(key) : \A j \in idx(key) : j <= i]
      keys == {normalizeFilePath(f) : f \in compared} \cup compared
  IN [key \in DOMAIN fileDiffCache \cup keys |->
        IF key \in keys
        THEN DiffEntry(last(key) \in diff, last(key) \in diff /\ IsOrgNewer(last(key)), FALSE)
        ELSE fileDiffCache[key]]

\* A callback that fires the notifications and leaves the cache as it is
DecorationCacheAfterMutant(compared) == decorationCache

\* onFileCompared(uri) for the files in compared: the decoration cache entries
\* of the file and of its '-meta.xml' are deleted and a notification is fired
\* for each of the two.
DecorationCacheAfter(compared) ==
  [key \in DOMAIN decorationCache \ (compared \cup {Sidecar(f) : f \in compared}) |->
     decorationCache[key]]

\* A loop that compares all files of the batch and fires the notifications
\* after the last one
CompareLoopMutant(q, got, cb) ==
  LET files == SelectSeq(q, LAMBDA f : f \in got)
      fired(f) == <<[ev |-> "fire", file |-> f], [ev |-> "fire", file |-> Sidecar(f)]>>
      RECURSIVE All(_)
      All(fs) == IF fs = <<>> THEN <<>> ELSE fired(Head(fs)) \o All(Tail(fs))
  IN [i \in 1..Len(files) |-> [ev |-> "compared", file |-> files[i]]]
     \o (IF cb THEN All(files) ELSE <<>>)

\* for (const file of batch): a file that was retrieved is compared and
\* stored, and then decorationCallback(file.uri, ...) is called, which fires
\* the notification for the uri and the one for its '-meta.xml'; then the
\* next file's turn comes.
RECURSIVE CompareLoop(_, _, _)
CompareLoop(q, got, cb) ==
  IF q = <<>> THEN <<>>
  ELSE LET f == Head(q)
       IN (IF f \notin got THEN <<>>
           ELSE <<[ev |-> "compared", file |-> f]>>
                \o (IF cb THEN <<[ev |-> "fire", file |-> f],
                                 [ev |-> "fire", file |-> Sidecar(f)]>>
                     ELSE <<>>))
          \o CompareLoop(Tail(q), got, cb)

RunAfterCompared(compared) ==
  [run EXCEPT !.emitted = @ \cup compared,
              !.perFile = @ + 2 * Cardinality(compared),
              !.late = IF run.final > 0 THEN @ + 2 * Cardinality(compared) ELSE @]

\* The call makes the scratch directory of its retrieve batch k and sends the
\* retrieve.
RetrieveStarted(l, p, k) ==
  [l EXCEPT !.k = k, !.dir = TempDir("batch"), !.dirs = @ \cup {TempDir("batch")}]

\* batchCompareFilesWithOrg(files, progressCallback, decorationCallback) is
\* called: no files, no work; otherwise it first awaits checkOrgConnection().
BatchCompareLoc(l0, files, cb) ==
  [l0 EXCEPT !.cfiles = files, !.cb = cb, !.k = 0, !.dir = NoDir, !.dirs = {},
             !.cmpMap = EmptyMap, !.events = <<>>]

BatchCompareEnter(p, files, cb, ret, stk, l0) ==
  LET l == BatchCompareLoc(l0, files, cb)
  IN IF files = <<>> THEN
       /\ pc' = [pc EXCEPT ![p] = ret]
       /\ stack' = [stack EXCEPT ![p] = stk]
       /\ loc' = [loc EXCEPT ![p] = l]
       /\ UNCHANGED connVars
     ELSE ConnEnter(p, "bc_conn", <<ret>> \o stk, l)

CallBatchCompareFilesWithOrg(p, files) ==
  /\ pc[p] = "idle"
  /\ BatchCompareEnter(p, files, FALSE, "bcompare_ret", stack[p], loc[p])
  /\ UNCHANGED <<timeVars, envVars, cacheVars, uiVars, fsVars, pipeVars, covVars>>

\* batchCompareFilesWithOrg after the connection check: not connected, it
\* returns; connected, it groups the files and starts its first retrieve.
BatchCompareAfterConn(p) ==
  /\ pc[p] = "bc_conn"
  /\ IF ~loc[p].connRes.connected THEN
       /\ Return(p, loc[p])
       /\ UNCHANGED tempDirs
     ELSE
       /\ pc' = [pc EXCEPT ![p] = "bc_retrieve"]
       /\ loc' = [loc EXCEPT ![p] = RetrieveStarted(@, p, 1)]
       /\ tempDirs' = tempDirs \cup {loc'[p].dir}
       /\ UNCHANGED stack
  /\ UNCHANGED <<timeVars, envVars, connVars, cacheVars, uiVars, pipeVars, covVars>>

\* What a batch retrieve can do: status 0 with files, another status, or an
\* error thrown.
BatchCompareOutcomes == {"ok", "nonzero"} \cup CompareErrors

\* What follows retrieve batch k of the call: the 200 ms delay if another
\* slice of the same type follows, else the next type's first retrieve, else
\* the return.
AfterRetrieveBatch(p, l, dirs) ==
  LET batches == RetrieveBatches(l.cfiles)
  IN IF batches[l.k].more THEN
       /\ pc' = [pc EXCEPT ![p] = "bc_delay"]
       /\ loc' = [loc EXCEPT ![p] = l]
       /\ tempDirs' = dirs
       /\ UNCHANGED stack
     ELSE IF l.k < Len(batches) THEN
       /\ pc' = [pc EXCEPT ![p] = "bc_retrieve"]
       /\ loc' = [loc EXCEPT ![p] = RetrieveStarted(l, p, l.k + 1)]
       /\ tempDirs' = dirs \cup {loc'[p].dir}
       /\ UNCHANGED stack
     ELSE
       /\ Return(p, l)
       /\ tempDirs' = dirs

\* A batch retrieve ends.  got are the files of the batch that were retrieved
\* and exist locally, diff those of them whose normalized contents differ.
\* Each file in got is stored in the diff cache and handed to the decoration
\* callback; the others are logged.  cleanupTempDir is the last statement of
\* the try block; an error thrown skips it.
BatchCompareRetrieveReturn(p, o, got, diff) ==
  /\ pc[p] = "bc_retrieve"
  /\ LET l == loc[p]
         q == RetrieveBatches(l.cfiles)[l.k].files
     IN /\ got \subseteq Range(q)
        /\ diff \subseteq got
        /\ o # "ok" => got = {}
        /\ fileDiffCache' = DiffCacheAfter(q, got, diff)
        /\ decorationCache' = IF l.cb THEN DecorationCacheAfter(got) ELSE decorationCache
        /\ run' = IF l.cb THEN RunAfterCompared(got) ELSE run
        /\ AfterRetrieveBatch(p, [l EXCEPT !.dir = NoDir,
                                           !.events = CompareLoop(q, got, l.cb),
                                           !.settle = Settle(@, "bc_retrieve", o),
                                           !.cmpMap = [f \in DOMAIN l.cmpMap \cup got |->
                                                         IF f \in got THEN f \in diff
                                                         ELSE l.cmpMap[f]]],
                              IF o \in CompareErrors THEN tempDirs
                              ELSE cleanupTempDir(tempDirs, l.dir))
  /\ UNCHANGED <<sourceStatusCache, pendingUpdates, statusBar, prefetchBar, timeVars, envVars, connVars, covVars>>

\* The 200 ms between two slices of one type have passed.
BatchCompareDelayDone(p) ==
  /\ pc[p] = "bc_delay"
  /\ pc' = [pc EXCEPT ![p] = "bc_retrieve"]
  /\ loc' = [loc EXCEPT ![p] = RetrieveStarted(@, p, loc[p].k + 1)]
  /\ tempDirs' = tempDirs \cup {loc'[p].dir}
  /\ UNCHANGED <<stack, timeVars, envVars, connVars, cacheVars, uiVars, pipeVars, covVars>>

\* -------------------------------------------------------- normalizeContent

\* The content of a file is a sequence of characters: letters, the space
\* "SP", the tab "TAB", the carriage return "CR" and the line feed "LF".
Blank == {"SP", "TAB"}
LineTerminators == {"LF", "CR"}

\* content.replace(/\r\n/g, '\n')
RECURSIVE ReplaceCrLf(_)
ReplaceCrLf(c) ==
  IF c = <<>> THEN <<>>
  ELSE IF Len(c) >= 2 /\ c[1] = "CR" /\ c[2] = "LF"
       THEN <<"LF">> \o ReplaceCrLf(SubSeq(c, 3, Len(c)))
  ELSE <<Head(c)>> \o ReplaceCrLf(Tail(c))

\* .replace(/[ \t]+$/gm, ''): every run of spaces and tabs that ends at the
\* end of the input or before a line terminator is removed.
RECURSIVE StripTrailing(_)
StripTrailing(c) ==
  IF c = <<>> THEN <<>>
  ELSE LET rest == StripTrailing(Tail(c))
       IN IF Head(c) \in Blank /\ (rest = <<>> \/ Head(rest) \in LineTerminators)
          THEN rest
          ELSE <<Head(c)>> \o rest

\* .trim(): white space and line terminators are removed at both ends.
RECURSIVE TrimStart(_)
TrimStart(c) ==
  IF c # <<>> /\ Head(c) \in Blank \cup LineTerminators THEN TrimStart(Tail(c)) ELSE c

RECURSIVE TrimEnd(_)
TrimEnd(c) ==
  IF c # <<>> /\ c[Len(c)] \in Blank \cup LineTerminators
  THEN TrimEnd(SubSeq(c, 1, Len(c) - 1))
  ELSE c

\* A comparison of the contents as they are
normalizeContentMutant(content) == content

normalizeContent(content) == TrimEnd(TrimStart(StripTrailing(ReplaceCrLf(content))))

\* Task p has read the local file and the retrieved file.
ReadContents(p, localContent, orgContent, sameText) ==
  /\ pc[p] = "idle"
  /\ pc' = [pc EXCEPT ![p] = "cc_read"]
  /\ loc' = [loc EXCEPT ![p] = [@ EXCEPT !.localContent = localContent,
                                         !.orgContent = orgContent,
                                         !.sameText = sameText,
                                         !.cmpRes = NoCompare]]
  /\ UNCHANGED <<stack, timeVars, envVars, connVars, cacheVars, uiVars, fsVars, pipeVars, covVars>>

\* const hasDifference = normalizedLocal !== normalizedOrg
CompareContents(p) ==
  /\ pc[p] = "cc_read"
  /\ pc' = [pc EXCEPT ![p] = "compare_ret"]
  /\ loc' = [loc EXCEPT ![p].cmpRes =
               CompareResult(normalizeContent(loc[p].localContent)
                               # normalizeContent(loc[p].orgContent),
                             "none", FALSE)]
  /\ UNCHANGED <<stack, timeVars, envVars, connVars, cacheVars, uiVars, fsVars, pipeVars, covVars>>

\* --------------------------------------------------- getAggregateCoverage

\* What getAggregateCoverage returns: null, the record without data, or the
\* counts with their percentage.
NullCoverage == [kind |-> "null", covered |-> 0, uncovered |-> 0, percentage |-> 0]
NoCoverageData == [kind |-> "noData", covered |-> 0, uncovered |-> 0, percentage |-> 0]

\* The counts up to 60 for which (covered / total) * 100, an exact half in
\* the reals, is a double just below the half: 23 / 40 is 0.575 and
\* 0.575 * 100 is 57.49999999999999.
DoubleBelowHalf == {<<23, 17>>, <<46, 34>>}

\* total > 0 ? Math.round((covered / total) * 100) : 0, in the arithmetic of
\* JavaScript numbers: Math.round rounds the double product to the nearest
\* integer, a half upwards.
Percentage(covered, uncovered) ==
  LET total == covered + uncovered
      nearest == (200 * covered + total) \div (2 * total)
  IN IF total > 0
     THEN IF <<covered, uncovered>> \in DoubleBelowHalf THEN nearest - 1 ELSE nearest
     ELSE 0

CoverageData(covered, uncovered) ==
  [kind |-> "data", covered |-> covered, uncovered |-> uncovered,
   percentage |-> Percentage(covered, uncovered)]

\* getAggregateCoverage(apexName) is called: a cache entry younger than five
\* minutes is returned, without a connected org null is returned, otherwise
\* the query for the Id is sent.
CallGetAggregateCoverage(p, name) ==
  /\ pc[p] = "idle"
  /\ LET cached == MapGet(coverageCache, name)
         l == [loc[p] EXCEPT !.covKey = name, !.qout = "none"]
     IN IF cached # NoEntry /\ now - cached.timestamp < CoverageCacheTTL THEN
          /\ pc' = [pc EXCEPT ![p] = "coverage_ret"]
          /\ loc' = [loc EXCEPT ![p] = [l EXCEPT !.covRes = cached.data,
                                                 !.settle = "resolved"]]
        ELSE IF ~orgConnectionCache.connected THEN
          /\ pc' = [pc EXCEPT ![p] = "coverage_ret"]
          /\ loc' = [loc EXCEPT ![p] = [l EXCEPT !.covRes = NullCoverage,
                                                 !.settle = "resolved"]]
        ELSE
          /\ pc' = [pc EXCEPT ![p] = "cov_id"]
          /\ loc' = [loc EXCEPT ![p] = l]
  /\ UNCHANGED <<stack, timeVars, envVars, connVars, cacheVars, uiVars, fsVars, pipeVars,
                 covVars>>

\* The answer to the query for the Id: with a record the coverage query is
\* sent; without one, with another status or with an error thrown, null is
\* returned.
CoverageIdReturn(p, o) ==
  /\ pc[p] = "cov_id"
  /\ IF o = "found" THEN
       /\ pc' = [pc EXCEPT ![p] = "cov_query"]
       /\ UNCHANGED loc
     ELSE
       /\ pc' = [pc EXCEPT ![p] = "coverage_ret"]
       /\ loc' = [loc EXCEPT ![p] = [@ EXCEPT !.covRes = NullCoverage, !.qout = o,
                                              !.settle = Settle(@, "cov_id", o)]]
  /\ UNCHANGED <<stack, timeVars, envVars, connVars, cacheVars, uiVars, fsVars, pipeVars,
                 covVars>>

\* The answer to the coverage query: a record gives the counts and their
\* percentage, no record or another status gives the record without data;
\* both are cached.  An error thrown gives null and nothing is cached.
CoverageQueryReturn(p, o, covered, uncovered) ==
  /\ pc[p] = "cov_query"
  /\ LET data == IF o = "found" THEN CoverageData(covered, uncovered)
                 ELSE IF o \in QueryErrors THEN NullCoverage
                 ELSE NoCoverageData
     IN /\ coverageCache' =
             IF o \in QueryErrors THEN coverageCache
             ELSE MapSet(coverageCache, loc[p].covKey, [timestamp |-> now, data |-> data])
        /\ pc' = [pc EXCEPT ![p] = "coverage_ret"]
        /\ loc' = [loc EXCEPT ![p] = [@ EXCEPT !.covRes = data, !.qout = o,
                                               !.settle = Settle(@, "cov_query", o)]]
  /\ UNCHANGED <<stack, timeVars, envVars, connVars, cacheVars, uiVars, fsVars, pipeVars>>

\* ------------------------------------------------------ cache maintenance

\* invalidateFileCache(filePath): Map.delete of exactly that key in both caches
invalidateFileCache(f) ==
  /\ sourceStatusCache' = MapDelete(sourceStatusCache, f)
  /\ fileDiffCache' = MapDelete(fileDiffCache, f)

\* A caller calls invalidateFileCache(filePath) and has it return.
CallInvalidateFileCache(p, f) ==
  /\ pc[p] = "idle"
  /\ invalidateFileCache(f)
  /\ pc' = [pc EXCEPT ![p] = "inval_ret"]
  /\ loc' = [loc EXCEPT ![p].path = f]
  /\ UNCHANGED <<stack, timeVars, envVars, connVars, uiVars, fsVars, pipeVars, covVars>>

\* clearSourceCache(): both maps cleared
clearSourceCache ==
  /\ sourceStatusCache' = EmptyMap
  /\ fileDiffCache' = EmptyMap
  /\ UNCHANGED <<timeVars, envVars, connVars, uiVars, fsVars, procVars, pipeVars, covVars>>

\* ------------------------------------------------------- getFileDiffStatus

DiffStatusOf(cached) ==
  [hasDifference |-> cached.hasDifference, isOrgNewer |-> cached.isOrgNewer,
   isCompared |-> TRUE]

\* A lookup without the scan of the entries
getFileDiffStatusMutant(f) ==
  LET normalizedPath == normalizeFilePath(f)
  IN IF MapGet(fileDiffCache, normalizedPath) # NoEntry
       THEN DiffStatusOf(MapGet(fileDiffCache, normalizedPath))
     ELSE IF MapGet(fileDiffCache, f) # NoEntry
       THEN DiffStatusOf(MapGet(fileDiffCache, f))
     ELSE NotCompared

\* getFileDiffStatus(filePath): the entry under the normalized path, under
\* the path, under the parent of a '-meta.xml' path, or under any key whose
\* normalized form is the normalized path; entries are used whatever their age.
getFileDiffStatus(f) ==
  LET normalizedPath == normalizeFilePath(f)
      scan == {k \in DOMAIN fileDiffCache : normalizeFilePath(k) = normalizedPath}
  IN IF MapGet(fileDiffCache, normalizedPath) # NoEntry
       THEN DiffStatusOf(MapGet(fileDiffCache, normalizedPath))
     ELSE IF MapGet(fileDiffCache, f) # NoEntry
       THEN DiffStatusOf(MapGet(fileDiffCache, f))
     ELSE IF f.meta > 0 /\ MapGet(fileDiffCache, getParentFilePath(f)) # NoEntry
       THEN DiffStatusOf(MapGet(fileDiffCache, getParentFilePath(f)))
     ELSE IF scan # {}
       THEN DiffStatusOf(fileDiffCache[CHOOSE k \in scan : TRUE])
     ELSE NotCompared

hasLocalChanges(f) == getFileDiffStatus(f).hasDifference

\* ---------------------------------------------------- provideFileDecoration

\* The chain with the checkmark given to a file that was never compared
DecorationMutant(fileStatus, diffStatus) ==
  IF fileStatus.error = "Component not found in org" THEN "plus"
  ELSE IF fileStatus.error # "none" THEN "none"
  ELSE IF diffStatus.hasDifference /\ diffStatus.isOrgNewer THEN "pull"
  ELSE IF diffStatus.hasDifference THEN "push"
  ELSE IF fileStatus.lastModifiedBy # "" THEN "check"
  ELSE "none"

\* The decoration chosen from the file status and the diff status: '+' (plus),
\* the arrows for pull and push, the checkmark, or none.
Decoration(fileStatus, diffStatus) ==
  IF fileStatus.error = "Component not found in org" THEN "plus"
  ELSE IF fileStatus.error # "none" THEN "none"
  ELSE IF diffStatus.hasDifference /\ diffStatus.isOrgNewer THEN "pull"
  ELSE IF diffStatus.hasDifference THEN "push"
  ELSE IF diffStatus.isCompared /\ fileStatus.lastModifiedBy # "" THEN "check"
  ELSE "none"

\* provideFileDecoration(uri) up to its await: a decoration cached under the
\* parent path less than 60000 ms ago is returned as it is; without a cached
\* connection there is no decoration; otherwise the diff status is read and
\* getFileOrgStatus(parentFilePath, true) awaited.
CallProvideFileDecoration(p, f) ==
  /\ pc[p] = "idle"
  /\ LET parentFilePath == getParentFilePath(f)
         cached == MapGet(decorationCache, parentFilePath)
         l == [loc[p] EXCEPT !.uri = f, !.deco = "none"]
     IN IF cached # NoEntry /\ now - cached.timestamp < DecorationCacheTTL THEN
          /\ pc' = [pc EXCEPT ![p] = "deco_ret"]
          /\ loc' = [loc EXCEPT ![p] = [l EXCEPT !.deco = cached.decoration]]
          /\ UNCHANGED <<stack, connVars>>
        ELSE IF ~orgConnectionCache.connected THEN
          /\ pc' = [pc EXCEPT ![p] = "deco_ret"]
          /\ loc' = [loc EXCEPT ![p] = l]
          /\ UNCHANGED <<stack, connVars>>
        ELSE
          GetStatusEnter(p, parentFilePath, TRUE, "deco_status", <<"deco_ret">> \o stack[p],
                         [l EXCEPT !.diff = getFileDiffStatus(f)])
  /\ UNCHANGED <<timeVars, envVars, cacheVars, uiVars, fsVars, pipeVars, covVars>>

\* provideFileDecoration after its await: the decoration is chosen from the
\* file status and the diff status read before the await, cached under the
\* parent path if there is one, and returned.
ProvideFileDecorationAfterStatus(p) ==
  /\ pc[p] = "deco_status"
  /\ LET l == loc[p]
         decoration == Decoration(l.fileRes, l.diff)
     IN /\ decorationCache' =
             IF decoration # "none"
             THEN MapSet(decorationCache, getParentFilePath(l.uri),
                         [timestamp |-> now, decoration |-> decoration])
             ELSE decorationCache
        /\ Return(p, [l EXCEPT !.deco = decoration])
  /\ UNCHANGED <<pendingUpdates, statusBar, prefetchBar, timeVars, envVars, connVars, cacheVars,
                 fsVars, pipeVars, covVars>>

\* onDidSaveTextDocument: invalidateFileCache(fsPath), then queueRefresh(uri),
\* which sets the timer of 500 ms anew.
SaveDocument(f) ==
  /\ invalidateFileCache(f)
  /\ pendingUpdates' = pendingUpdates \cup {f}
  /\ UNCHANGED <<decorationCache, statusBar, prefetchBar, timeVars, envVars, connVars, fsVars,
                 procVars, pipeVars, covVars>>

\* The timer of queueRefresh fires: refresh(uri) for each pending uri deletes
\* the decoration cache entry under uri.fsPath.
RefreshTimerFires ==
  /\ pendingUpdates # {}
  /\ decorationCache' = [k \in DOMAIN decorationCache \ pendingUpdates |-> decorationCache[k]]
  /\ pendingUpdates' = {}
  /\ UNCHANGED <<statusBar, prefetchBar, timeVars, envVars, connVars, cacheVars, fsVars, procVars,
                 pipeVars, covVars>>

\* ------------------------------------------------------------ updateSyncStatus

\* updateSyncStatus(filePath) up to its first await: 'Checking...' is shown
\* and checkOrgConnection() awaited.
UpdateSyncEnter(p, f, ret, l) ==
  /\ statusBar' = [text |-> "checking", file |-> f]
  /\ ConnEnter(p, "us_conn", <<ret>> \o stack[p], [l EXCEPT !.uri = f])

CallUpdateSyncStatus(p, f) ==
  /\ pc[p] = "idle"
  /\ UpdateSyncEnter(p, f, "sync_ret", loc[p])
  /\ UNCHANGED <<decorationCache, pendingUpdates, prefetchBar, timeVars, envVars, cacheVars,
                 fsVars,
                 pipeVars, covVars>>

\* updateSyncStatus after the connection check: without a connection the
\* reason is shown; with one, getFileOrgStatus(filePath) is awaited.
UpdateSyncAfterConn(p) ==
  /\ pc[p] = "us_conn"
  /\ LET l == loc[p]
     IN IF ~l.connRes.connected THEN
          /\ statusBar' =
               [text |-> CASE l.connRes.errorType = "cli_not_installed" -> "no_cli"
                           [] l.connRes.errorType = "auth_expired" -> "auth_expired"
                           [] OTHER -> "no_org",
                file |-> l.uri]
          /\ Return(p, l)
          /\ UNCHANGED connVars
        ELSE
          /\ GetStatusEnter(p, l.uri, FALSE, "us_status", stack[p], l)
          /\ UNCHANGED statusBar
  /\ UNCHANGED <<decorationCache, pendingUpdates, prefetchBar, timeVars, envVars, cacheVars,
                 fsVars,
                 pipeVars, covVars>>

\* updateSyncStatus after getFileOrgStatus: hasLocalChanges(filePath) is read
\* and the item shows New, Unknown, Modified or 'In sync with org'.
UpdateSyncAfterStatus(p) ==
  /\ pc[p] = "us_status"
  /\ LET l == loc[p]
         hasChanges == hasLocalChanges(l.uri)
     IN /\ statusBar' =
             IF l.fileRes.error = "Not a Salesforce metadata file" THEN NoBar
             ELSE [text |-> CASE l.fileRes.error = "Component not found in org" -> "new"
                              [] l.fileRes.error # "none" -> "unknown"
                              [] hasChanges -> "modified"
                              [] OTHER -> "insync",
                   file |-> l.uri]
        /\ Return(p, l)
  /\ UNCHANGED <<decorationCache, pendingUpdates, prefetchBar, timeVars, envVars, connVars,
                 cacheVars,
                 fsVars, pipeVars, covVars>>

\* ------------------------------------------------ prefetchAllSalesforceFiles

\* A discovery that keeps every file that has a metadata type
DedupeMutant(allFiles, seenFiles) ==
  SelectSeq(allFiles, LAMBDA f : getMetadataTypeFromPath(f) # NoInfo)

\* The files of allFiles that have a metadata type, without those whose
\* type:name was seen before, in the order of allFiles
RECURSIVE Dedupe(_, _)
Dedupe(allFiles, seenFiles) ==
  IF allFiles = <<>> THEN <<>>
  ELSE LET metadataInfo == getMetadataTypeFromPath(Head(allFiles))
       IN IF metadataInfo = NoInfo \/ metadataInfo \in seenFiles
          THEN Dedupe(Tail(allFiles), seenFiles)
          ELSE <<Head(allFiles)>> \o Dedupe(Tail(allFiles), seenFiles \cup {metadataInfo})

\* A run that queries all files of a type at once
MetadataBatchesMutant(files) == BatchesOf(TypeOrder(files, {}), files, Len(files))

\* The metadata batches of a run: for each type of filesByType its files in
\* slices of metadataBatchSize
MetadataBatches(files) == BatchesOf(TypeOrder(files, {}), files, MetadataBatchSize)

\* The totals and counts <<totalUniqueFiles, processedMetadataCount,
\* processedCompareCount>> of the runs modelled for which the doubles of
\* ((m / t) * 0.3 + (c / t) * 0.7) * t give a number just below the integer
\* (3m + 7c) / 10, as ((50 / 51) * 0.3) * 51 = 14.999999999999998
DoubleBelowFloor ==
  {<<4, 3, 3>>, <<51, 50, 0>>, <<51, 50, 10>>, <<51, 50, 40>>, <<51, 50, 50>>,
   <<51, 51, 11>>, <<51, 51, 21>>, <<51, 51, 31>>}

\* updateProgress(): Math.floor(((m / t) * 0.3 + (c / t) * 0.7) * t), in the
\* doubles of JavaScript
Progress(metadataCount, compareCount, total) ==
  LET exact == (3 * metadataCount + 7 * compareCount) \div 10
  IN IF <<total, metadataCount, compareCount>> \in DoubleBelowFloor
     THEN exact - 1 ELSE exact

\* A pipeline that compares the batch after the one just fetched
ComparedBatchMutant(batches, i) == batches[IF i < Len(batches) THEN i + 1 ELSE i].files

\* The batch whose comparison starts when the fetch of metadata batch i has
\* returned: metadataBatch itself
ComparedBatch(batches, i) == batches[i].files

\* A pipeline that does not await its comparison promises
AllComparedMutant(settled, spawned) == TRUE

\* await Promise.all(comparisonPromises) goes on when all of them are settled
AllCompared(settled, spawned) == settled = spawned

\* The task that runs the comparison promise of metadata batch i
PromiseTask(i) == NumProcs + i

\* prefetchAllSalesforceFiles() up to its first await on the org: the files
\* found are deduplicated and grouped; with no file found the run is over,
\* otherwise the first metadata batch is fetched.
StartPrefetch(m, allFiles) ==
  /\ pc[m] = "idle"
  /\ LET unique == Dedupe(allFiles, {})
         batches == MetadataBatches(unique)
         started == [NoRun EXCEPT !.phase = "running", !.found = Len(allFiles),
                                  !.batches = batches, !.total = Len(unique)]
     IN IF allFiles = <<>> THEN
          /\ run' = [NoRun EXCEPT !.phase = "done"]
          /\ pc' = [pc EXCEPT ![m] = "prefetch_ret"]
          /\ UNCHANGED <<stack, loc, connVars>>
        ELSE IF batches = <<>> THEN
          /\ run' = started
          /\ pc' = [pc EXCEPT ![m] = "pf_join"]
          /\ UNCHANGED <<stack, loc, connVars>>
        ELSE
          /\ Len(batches) <= NumWorkers
          /\ run' = [started EXCEPT !.i = 1]
          /\ BatchEnter(m, Range(batches[1].files), "pf_meta_ret")
  /\ UNCHANGED <<timeVars, envVars, cacheVars, uiVars, fsVars, covVars>>

\* The fetch of metadata batch i has returned.  In one run of the main
\* function: the count and the progress are updated; the comparison promise
\* is created and runs up to the await of checkOrgConnection() in its first
\* batchCompareFilesWithOrg; then the loop goes on to the delay of 50 ms, to
\* the fetch of the next type's first batch, or to Promise.all.  Had the
\* fetch rejected, the catch block would count the batch and create no
\* comparison promise.
PrefetchAfterMeta(m) ==
  /\ pc[m] = "pf_meta_ret"
  /\ LET i == run.i
         metadataBatch == run.batches[i].files
         w == PromiseTask(i)
         compared == ComparedBatch(run.batches, i)
         caught == loc[m].settle = "rejected"
         d1 == IF caught
               THEN [how |-> "none", waitOn |-> 0, pending |-> pendingOrgConnectionCheck,
                     checks |-> checks, res |-> NoResult]
               ELSE ConnDecide(pendingOrgConnectionCheck, checks)
         tw == ConnCaller(d1, "bc_conn", <<"cw_ret">>,
                          [BatchCompareLoc(InitLoc, Slices(compared, CompareBatchSize)[1], TRUE)
                             EXCEPT !.mbatch = compared, !.j = 1])
         d2 == ConnDecide(d1.pending, d1.checks)
         next == IF i < Len(run.batches) THEN run.batches[i + 1].files ELSE <<>>
         tm == IF run.batches[i].more THEN
                 [pc |-> "pf_delay", stack |-> stack[m], loc |-> loc[m]]
               ELSE IF i < Len(run.batches) THEN
                 ConnCaller(d2, "bs_conn", <<"pf_meta_ret">> \o stack[m],
                            BatchLoc(loc[m], Range(next)))
               ELSE [pc |-> "pf_join", stack |-> stack[m], loc |-> loc[m]]
         d == IF ~run.batches[i].more /\ i < Len(run.batches) THEN d2 ELSE d1
     IN /\ Len(d.checks) <= MaxChecks
        /\ run' = [run EXCEPT !.metaCount = @ + Len(metadataBatch),
                              !.progress = Progress(run.metaCount + Len(metadataBatch),
                                                    run.cmpCount, run.total),
                              !.fetched = @ \cup Range(metadataBatch),
                              !.handed = IF caught THEN @ ELSE @ \cup Range(tw.loc.cfiles),
                              !.spawned = IF caught THEN @ ELSE @ + 1,
                              !.i = IF ~run.batches[i].more /\ i < Len(run.batches)
                                    THEN i + 1 ELSE i]
        /\ pendingOrgConnectionCheck' = d.pending
        /\ checks' = d.checks
        /\ pc' = [pc EXCEPT ![m] = tm.pc, ![w] = IF caught THEN @ ELSE tw.pc]
        /\ stack' = [stack EXCEPT ![m] = tm.stack, ![w] = IF caught THEN @ ELSE tw.stack]
        /\ loc' = [loc EXCEPT ![m] = tm.loc, ![w] = IF caught THEN @ ELSE tw.loc]
  /\ UNCHANGED <<orgConnectionCache, timeVars, envVars, cacheVars, uiVars, fsVars, covVars>>

\* The 50 ms between two metadata batches of one type have passed: the next
\* batch is fetched.
PrefetchDelayDone(m) ==
  /\ pc[m] = "pf_delay"
  /\ run' = [run EXCEPT !.i = @ + 1]
  /\ BatchEnter(m, Range(run.batches[run.i + 1].files), "pf_meta_ret")
  /\ UNCHANGED <<timeVars, envVars, cacheVars, uiVars, fsVars, covVars>>

\* A batchCompareFilesWithOrg of a comparison promise has returned: the count
\* and the progress are updated, and the next compare batch is started or the
\* promise settles.
CompareWorkerAfterBatch(w) ==
  /\ pc[w] = "cw_ret"
  /\ LET l == loc[w]
         compareBatches == Slices(l.mbatch, CompareBatchSize)
         counted == [run EXCEPT !.cmpCount = @ + Len(compareBatches[l.j]),
                                !.progress = Progress(run.metaCount,
                                                      run.cmpCount + Len(compareBatches[l.j]),
                                                      run.total)]
     IN IF l.j < Len(compareBatches) THEN
          /\ run' = [counted EXCEPT !.handed = @ \cup Range(compareBatches[l.j + 1])]
          /\ BatchCompareEnter(w, compareBatches[l.j + 1], TRUE, "cw_ret", <<>>,
                               [l EXCEPT !.j = @ + 1])
        ELSE
          /\ run' = [counted EXCEPT !.settled = @ + 1]
          /\ pc' = [pc EXCEPT ![w] = "idle"]
          /\ loc' = [loc EXCEPT ![w] = InitLoc]
          /\ UNCHANGED <<stack, connVars>>
  /\ UNCHANGED <<timeVars, envVars, cacheVars, uiVars, fsVars, covVars>>

\* The run is over: the progress is hidden and the summary shown.
RunDone(r) == [r EXCEPT !.phase = "done", !.summary.shown = TRUE]

\* Promise.all has all its promises settled: the differences in the diff
\* cache are counted, the decoration cache is cleared and the notification for
\* all files fired; with an active editor updateSyncStatus is awaited before
\* the run ends.
PrefetchJoin(m, editor) ==
  /\ pc[m] = "pf_join"
  /\ AllCompared(run.settled, run.spawned)
  /\ LET changed == {k \in DOMAIN fileDiffCache : fileDiffCache[k].hasDifference}
         orgNewer == {k \in changed : fileDiffCache[k].isOrgNewer}
         final == [run EXCEPT !.final = @ + 1,
                              !.summary = [shown |-> FALSE, total |-> run.total,
                                           localChanges |-> Cardinality(changed \ orgNewer),
                                           orgNewer |-> Cardinality(orgNewer)]]
     IN /\ decorationCache' = EmptyMap
        /\ IF editor THEN
             /\ run' = final
             /\ UpdateSyncEnter(m, SourcePath("A"), "pf_sync_ret", loc[m])
           ELSE
             /\ run' = RunDone(final)
             /\ pc' = [pc EXCEPT ![m] = "prefetch_ret"]
             /\ UNCHANGED <<stack, loc, connVars, statusBar>>
  /\ UNCHANGED <<pendingUpdates, prefetchBar, timeVars, envVars, cacheVars, fsVars, covVars>>

\* updateSyncStatus has returned to the run.
PrefetchAfterSync(m) ==
  /\ pc[m] = "pf_sync_ret"
  /\ run' = RunDone(run)
  /\ pc' = [pc EXCEPT ![m] = "prefetch_ret"]
  /\ UNCHANGED <<stack, loc, timeVars, envVars, connVars, cacheVars, uiVars, fsVars, covVars>>

\* ------------------------------------------------- the connection cache alone

InitCommon ==
  /\ now = 1000
  /\ ticks = 0
  /\ orgConnectionCache = EmptyOrgCache
  /\ pendingOrgConnectionCheck = 0
  /\ checks = <<>>
  /\ sourceStatusCache = EmptyMap
  /\ fileDiffCache = EmptyMap
  /\ decorationCache = EmptyMap
  /\ pendingUpdates = {}
  /\ statusBar = NoBar
  /\ prefetchBar = NoPrefetchBar
  /\ tempDirs = {}
  /\ pc = [p \in Tasks |-> "idle"]
  /\ stack = [p \in Tasks |-> <<>>]
  /\ loc = [p \in Tasks |-> InitLoc]
  /\ run = NoRun
  /\ coverageCache = EmptyMap

InitConn ==
  /\ InitCommon
  /\ cliInstalled = "not_false"

ConnTickSteps == {OrgCacheTTL}

NextConn ==
  \/ \E p \in Procs : CallCheckOrgConnection(p)
  \/ \E p \in Tasks : TaskReturn(p)
  \/ \E p \in Tasks : ConnOwnerResume(p)
  \/ \E p \in Tasks : ConnJoinerResume(p)
  \/ \E i \in 1..MaxChecks, o \in ConnOutcomes : ConnRemoteReturn(i, o)
  \/ clearOrgCache
  \/ \E found \in BOOLEAN : checkSfCliInstalled(found)
  \/ \E d \in ConnTickSteps : Tick(d)

SpecConn == InitConn /\ [][NextConn]_vars

\* ------------------------------------------- the connection cache's TTL

\* The clock advances to one second before the TTL, or by the TTL
ConnTtlTickSteps == {OrgCacheTTL - 1000, OrgCacheTTL}

\* Tasks 1 and 2 make the calls of checkOrgConnection.
ConnTtlCallers == {1, 2}

NextConnTtl ==
  \/ \E p \in ConnTtlCallers : CallCheckOrgConnection(p)
  \/ \E p \in Tasks : TaskReturn(p)
  \/ \E p \in Tasks : ConnOwnerResume(p)
  \/ \E p \in Tasks : ConnJoinerResume(p)
  \/ \E i \in 1..MaxChecks, o \in ConnOutcomes : ConnRemoteReturn(i, o)
  \/ clearOrgCache
  \/ \E found \in BOOLEAN : checkSfCliInstalled(found)
  \/ \E d \in ConnTtlTickSteps : Tick(d)

SpecConnTtl == InitConn /\ [][NextConnTtl]_vars

\* The same calls under the scheduling of the event loop: the command of a
\* check ends, by its answer, its failure or the timer of
\* execCommandWithTimeout, and the continuation of the caller that awaits the
\* settled promise is run.
SpecGuard ==
  /\ InitConn
  /\ [][NextConnTtl]_vars
  /\ WF_vars(\E i \in 1..MaxChecks, o \in ConnOutcomes : ConnRemoteReturn(i, o))
  /\ WF_vars(\E p \in Tasks : ConnOwnerResume(p))

\* ------------------------------------------------- the status cache alone

\* The paths the calls are made with: a class file and its sidecar
CallPaths == {SourcePath("A"), Sidecar(SourcePath("A"))}

\* The record dates and the connection outcomes of these runs
StatusDates == {1500}
StatusConnOutcomes == {"ok", "err_expired"}

StatusTickSteps == {getCacheTTL}

NextStatus ==
  \/ \E p \in Procs, f \in CallPaths, prefer \in BOOLEAN : CallGetFileOrgStatus(p, f, prefer)
  \/ \E p \in Procs : GetStatusAfterConn(p)
  \/ \E p \in Procs, o \in QueryOutcomes, d \in StatusDates : GetStatusQueryReturn(p, o, d)
  \/ \E p \in Tasks : TaskReturn(p)
  \/ \E p \in Tasks : ConnOwnerResume(p)
  \/ \E p \in Tasks : ConnJoinerResume(p)
  \/ \E i \in 1..MaxChecks, o \in StatusConnOutcomes : ConnRemoteReturn(i, o)
  \/ \E p \in Procs, f \in CallPaths : CallInvalidateFileCache(p, f)
  \/ clearSourceCache
  \/ \E d \in StatusTickSteps : Tick(d)

SpecStatus == InitConn /\ [][NextStatus]_vars

\* ------------------------------------------------------ the batch planner

\* The file lists of the batches: none, two classes, a class and its sidecar,
\* and all three
BatchInputs ==
  {{}, {SourcePath("A"), SourcePath("B")}, {SourcePath("A"), Sidecar(SourcePath("A"))},
   {SourcePath("A"), SourcePath("B"), Sidecar(SourcePath("A"))}}

BatchOutcomes == {"ok", "status_nonzero"} \cup QueryErrors

\* Task 1 makes the batch calls; the other tasks make single-file calls for
\* one of the batch's files at the same time.
BatchCallers == {1}
SingleCallers == Procs \ BatchCallers

NextBatch ==
  \/ \E p \in BatchCallers, files \in BatchInputs : CallBatchGetFileOrgStatus(p, files)
  \/ \E p \in BatchCallers : BatchAfterConn(p)
  \/ \E p \in BatchCallers, o \in BatchOutcomes, r \in SUBSET {"A", "B"}, d \in StatusDates :
        BatchQueryReturn(p, o, r, d)
  \/ \E p \in SingleCallers : CallGetFileOrgStatus(p, SourcePath("A"), FALSE)
  \/ \E p \in SingleCallers : GetStatusAfterConn(p)
  \/ \E p \in SingleCallers, o \in {"found", "err_timeout"}, d \in StatusDates :
        GetStatusQueryReturn(p, o, d)
  \/ \E p \in Tasks : TaskReturn(p)
  \/ \E p \in Tasks : ConnOwnerResume(p)
  \/ \E p \in Tasks : ConnJoinerResume(p)
  \/ \E i \in 1..MaxChecks, o \in StatusConnOutcomes : ConnRemoteReturn(i, o)
  \/ clearSourceCache
  \/ \E d \in StatusTickSteps : Tick(d)

SpecBatch == InitConn /\ [][NextBatch]_vars

\* ------------------------------------------------- the status cache's TTL

\* The clock advances to one second before and to one second after the TTL
TtlTickSteps == {getCacheTTL - 1000, getCacheTTL + 1000}

\* Task 1 makes batch calls, the other tasks single-file calls that do not
\* prefer the cache.
NextTtl ==
  \/ \E p \in BatchCallers, files \in BatchInputs : CallBatchGetFileOrgStatus(p, files)
  \/ \E p \in BatchCallers : BatchAfterConn(p)
  \/ \E p \in BatchCallers, o \in {"ok", "err_timeout"}, r \in {{}, {"A", "B"}}, d \in StatusDates :
        BatchQueryReturn(p, o, r, d)
  \/ \E p \in SingleCallers, f \in CallPaths : CallGetFileOrgStatus(p, f, FALSE)
  \/ \E p \in SingleCallers : GetStatusAfterConn(p)
  \/ \E p \in SingleCallers, o \in {"found", "err_timeout"}, d \in StatusDates :
        GetStatusQueryReturn(p, o, d)
  \/ \E p \in Tasks : TaskReturn(p)
  \/ \E p \in Tasks : ConnOwnerResume(p)
  \/ \E p \in Tasks : ConnJoinerResume(p)
  \/ \E i \in 1..MaxChecks : ConnRemoteReturn(i, "ok")
  \/ \E d \in TtlTickSteps : Tick(d)

SpecTtl == InitConn /\ [][NextTtl]_vars

\* ---------------------------------------------------- the comparison alone

\* The file lists of the direct batch comparisons: a class and a trigger, and
\* eleven classes
ElevenClasses == [i \in 1..(RetrieveBatchSize + 1) |-> SourcePath(ClassNames[i])]

CompareInputs == {<<SourcePath("A"), SourcePath("T")>>, ElevenClasses}

\* The retrieve batch task p is waiting for
CurrentBatch(p) ==
  IF pc[p] = "bc_retrieve" THEN RetrieveBatches(loc[p].cfiles)[loc[p].k].files ELSE <<>>

\* The answers of a batch retrieve with status 0: all files, or all but the
\* first
GotChoices(p, o) ==
  IF CurrentBatch(p) = <<>> \/ o # "ok" THEN {{}}
  ELSE {Range(CurrentBatch(p)), Range(CurrentBatch(p)) \ {CurrentBatch(p)[1]}}

\* The files that differ: none, or the last of the batch
DiffChoices(p, got) ==
  IF CurrentBatch(p) = <<>> THEN {{}}
  ELSE {{}, got \cap {CurrentBatch(p)[Len(CurrentBatch(p))]}}

CompareTickSteps == {DiffCacheTTL}

\* One task calls compareFileWithOrg, the others batchCompareFilesWithOrg
CompareCallers == {1}
BatchCompareCallers == Procs \ CompareCallers

NextCompare ==
  \/ \E p \in CompareCallers : CallCompareFileWithOrg(p, SourcePath("A"))
  \/ \E p \in CompareCallers : CompareAfterConn(p)
  \/ \E p \in CompareCallers, o \in {"equal", "differ", "err_timeout"} :
       CompareRetrieveReturn(p, o)
  \/ \E p \in BatchCompareCallers, files \in CompareInputs :
       CallBatchCompareFilesWithOrg(p, files)
  \/ \E p \in BatchCompareCallers : BatchCompareAfterConn(p)
  \/ \E p \in BatchCompareCallers, o \in {"ok", "err_timeout"} :
       \E got \in GotChoices(p, o) : \E diff \in DiffChoices(p, got) :
          BatchCompareRetrieveReturn(p, o, got, diff)
  \/ \E p \in BatchCompareCallers : BatchCompareDelayDone(p)
  \/ \E p \in Tasks : TaskReturn(p)
  \/ \E p \in Tasks : ConnOwnerResume(p)
  \/ \E p \in Tasks : ConnJoinerResume(p)
  \/ \E i \in 1..MaxChecks : ConnRemoteReturn(i, "ok")
  \/ \E d \in CompareTickSteps : Tick(d)

SpecCompare == InitConn /\ [][NextCompare]_vars

\* ------------------------------------------- the decorations and the status bar

\* Task 1 is the decoration provider; the other tasks update the status bar
\* and compare.
DecorationCallers == {1}
BarCallers == Procs \ DecorationCallers

\* The clock step of these runs lets every cache expire
UiTickSteps == {OrgCacheTTL}

NextUi ==
  \/ \E p \in DecorationCallers, f \in CallPaths : CallProvideFileDecoration(p, f)
  \/ \E p \in DecorationCallers : ProvideFileDecorationAfterStatus(p)
  \/ \E p \in BarCallers : CallUpdateSyncStatus(p, SourcePath("A"))
  \/ \E p \in BarCallers : UpdateSyncAfterConn(p)
  \/ \E p \in BarCallers : UpdateSyncAfterStatus(p)
  \/ \E p \in BarCallers : CallBatchCompareFilesWithOrg(p, <<SourcePath("A")>>)
  \/ \E p \in BarCallers : BatchCompareAfterConn(p)
  \/ \E p \in BarCallers, diff \in SUBSET {SourcePath("A")} :
       BatchCompareRetrieveReturn(p, "ok", {SourcePath("A")}, diff)
  \/ \E p \in Procs : GetStatusAfterConn(p)
  \/ \E p \in Procs, o \in {"found", "empty"}, d \in StatusDates : GetStatusQueryReturn(p, o, d)
  \/ \E p \in Tasks : TaskReturn(p)
  \/ \E p \in Tasks : ConnOwnerResume(p)
  \/ \E p \in Tasks : ConnJoinerResume(p)
  \/ \E i \in 1..MaxChecks, o \in StatusConnOutcomes : ConnRemoteReturn(i, o)
  \/ SaveDocument(SourcePath("A"))
  \/ RefreshTimerFires
  \/ \E d \in UiTickSteps : Tick(d)

SpecUi == InitConn /\ [][NextUi]_vars

\* ----------------------------------------------------------- the pipeline

\* The files a run finds: none, a class and a trigger, and fifty-one classes
FiftyOneClasses == [i \in 1..(MetadataBatchSize + 1) |-> SourcePath(ClassNames[i])]

PrefetchInputs == {<<>>, <<SourcePath("A"), SourcePath("T")>>, FiftyOneClasses}

\* Task 1 runs prefetchAllSalesforceFiles
PrefetchCallers == {1}

\* A batch query of the run returns the records of all its names, or throws
ReturnedChoices(m, o) == IF pc[m] = "bs_query" /\ o = "ok" THEN {loc[m].qnames} ELSE {{}}

\* A retrieve of the run retrieves all files of its batch and none differs, or
\* all but the first and the last differs, or it throws
RetrievedChoices(w, o) ==
  IF CurrentBatch(w) = <<>> \/ o # "ok" THEN {[got |-> {}, diff |-> {}]}
  ELSE LET q == CurrentBatch(w)
       IN {[got |-> Range(q), diff |-> {}],
           [got |-> Range(q) \ {q[1]}, diff |-> {q[Len(q)]} \ {q[1]}]}

NextPipe ==
  \/ \E m \in PrefetchCallers, allFiles \in PrefetchInputs :
       run.phase = "idle" /\ StartPrefetch(m, allFiles)
  \/ \E m \in PrefetchCallers : BatchAfterConn(m)
  \/ \E m \in PrefetchCallers, o \in {"ok", "err_timeout"}, d \in StatusDates :
       \E r \in ReturnedChoices(m, o) : BatchQueryReturn(m, o, r, d)
  \/ \E m \in PrefetchCallers : PrefetchAfterMeta(m)
  \/ \E m \in PrefetchCallers : PrefetchDelayDone(m)
  \/ \E w \in Workers : BatchCompareAfterConn(w)
  \/ \E w \in Workers, o \in {"ok", "err_timeout"} :
       \E r \in RetrievedChoices(w, o) : BatchCompareRetrieveReturn(w, o, r.got, r.diff)
  \/ \E w \in Workers : CompareWorkerAfterBatch(w)
  \/ \E m \in PrefetchCallers, editor \in BOOLEAN : PrefetchJoin(m, editor)
  \/ \E m \in PrefetchCallers : UpdateSyncAfterConn(m)
  \/ \E m \in PrefetchCallers : GetStatusAfterConn(m)
  \/ \E m \in PrefetchCallers, o \in {"found", "empty"}, d \in StatusDates :
       GetStatusQueryReturn(m, o, d)
  \/ \E m \in PrefetchCallers : UpdateSyncAfterStatus(m)
  \/ \E m \in PrefetchCallers : PrefetchAfterSync(m)
  \/ \E p \in Tasks : TaskReturn(p)
  \/ \E p \in Tasks : ConnOwnerResume(p)
  \/ \E i \in 1..MaxChecks, o \in StatusConnOutcomes : ConnRemoteReturn(i, o)

SpecPipe == InitConn /\ [][NextPipe]_vars

\* ------------------------------------------------- the comparison of contents

\* The texts: up to MaxLines lines, each empty or with a letter
LineTexts == {<<>>, <<"a">>, <<"b">>}
Texts == UNION {[1..n -> LineTexts] : n \in 0..MaxLines}

\* How a text is written to a file: the line ending of the file (LF or CR
\* LF), the white space at the end of each line, and whether the last line
\* is ended.
Eols == {<<"LF">>, <<"CR", "LF">>}
Trails == {<<>>, <<"SP">>, <<"TAB", "SP">>}
Styles(n) == [eol : Eols, final : BOOLEAN, trails : [1..n -> Trails]]

RECURSIVE RenderFrom(_, _, _)
RenderFrom(lines, st, i) ==
  IF i > Len(lines) THEN <<>>
  ELSE lines[i] \o st.trails[i]
       \o (IF i < Len(lines) \/ st.final THEN st.eol ELSE <<>>)
       \o RenderFrom(lines, st, i + 1)

Render(lines, st) == RenderFrom(lines, st, 1)

\* A text with its first line changed
Edited(lines) == [lines EXCEPT ![1] = IF @ = <<"b">> THEN <<"a">> ELSE <<"b">>]

ContentCallers == {1}

NextContent ==
  \/ \E p \in ContentCallers :
       /\ pc[p] = "idle"
       /\ \E lines \in Texts : \E s1, s2 \in Styles(Len(lines)) :
             ReadContents(p, Render(lines, s1), Render(lines, s2), TRUE)
  \/ \E p \in ContentCallers :
       /\ pc[p] = "idle"
       /\ \E lines \in Texts \ {<<>>} : \E s1, s2 \in Styles(Len(lines)) :
             ReadContents(p, Render(lines, s1), Render(Edited(lines), s2), FALSE)
  \/ \E p \in ContentCallers : CompareContents(p)
  \/ \E p \in Tasks : TaskReturn(p)

SpecContent == InitConn /\ [][NextContent]_vars

\* ------------------------------------------- contents normalized twice

\* The raw contents: every sequence of up to MaxChars characters, each a
\* letter, a space, a tab, a carriage return or a line feed
CharInputs == {"a", "b", "SP", "TAB", "CR", "LF"}
RawInputs == UNION {[1..n -> CharInputs] : n \in 0..MaxChars}

\* Task 1 compares a raw content with its own normalization, which
\* CompareContents normalizes once more.
NextTwice ==
  \/ \E p \in ContentCallers :
       /\ pc[p] = "idle"
       /\ \E x \in RawInputs : ReadContents(p, x, normalizeContent(x), FALSE)
  \/ \E p \in ContentCallers : CompareContents(p)
  \/ \E p \in ContentCallers : TaskReturn(p)

SpecTwice == InitConn /\ [][NextTwice]_vars

\* ------------------------------------------- the direction of a difference

\* Task 1 fetches the status of a class, of a trigger or of both, with a
\* LastModifiedDate before or after the local file's modification time;
\* another task compares the two files with the org.
DirectionStatusInputs ==
  {{SourcePath("A")}, {SourcePath("T")}, {SourcePath("A"), SourcePath("T")}}

DirectionFiles == <<SourcePath("A"), SourcePath("T")>>

\* Task 2 makes the comparisons.
DirectionCompareCallers == {2}

NextDirection ==
  \/ \E p \in BatchCallers, files \in DirectionStatusInputs :
       CallBatchGetFileOrgStatus(p, files)
  \/ \E p \in BatchCallers : BatchAfterConn(p)
  \/ \E p \in BatchCallers, d \in RemoteDates :
       \E r \in ReturnedChoices(p, "ok") : BatchQueryReturn(p, "ok", r, d)
  \/ \E p \in DirectionCompareCallers : CallBatchCompareFilesWithOrg(p, DirectionFiles)
  \/ \E p \in DirectionCompareCallers : BatchCompareAfterConn(p)
  \/ \E p \in DirectionCompareCallers, o \in {"ok", "err_timeout"} :
       \E got \in SUBSET Range(CurrentBatch(p)) : \E diff \in SUBSET got :
          BatchCompareRetrieveReturn(p, o, got, diff)
  \/ \E p \in Tasks : TaskReturn(p)
  \/ \E p \in Tasks : ConnOwnerResume(p)
  \/ \E p \in Tasks : ConnJoinerResume(p)
  \/ \E i \in 1..MaxChecks : ConnRemoteReturn(i, "ok")

SpecDirection == InitConn /\ [][NextDirection]_vars

\* ------------------------------------------------- retrieves that fail

\* Task 1 compares one class, task 2 a class and a trigger in a batch; every
\* retrieve can end in each of the ways it has.
RetrieveFailTickSteps == {DiffCacheTTL}

RetrieveFailBatchCallers == {2}

NextRetrieveFail ==
  \/ \E p \in CompareCallers : CallCompareFileWithOrg(p, SourcePath("A"))
  \/ \E p \in CompareCallers : CompareAfterConn(p)
  \/ \E p \in CompareCallers, o \in CompareOutcomes : CompareRetrieveReturn(p, o)
  \/ \E p \in RetrieveFailBatchCallers : CallBatchCompareFilesWithOrg(p, DirectionFiles)
  \/ \E p \in RetrieveFailBatchCallers : BatchCompareAfterConn(p)
  \/ \E p \in RetrieveFailBatchCallers, o \in BatchCompareOutcomes :
       \E got \in GotChoices(p, o) : \E diff \in DiffChoices(p, got) :
          BatchCompareRetrieveReturn(p, o, got, diff)
  \/ \E p \in Tasks : TaskReturn(p)
  \/ \E p \in Tasks : ConnOwnerResume(p)
  \/ \E p \in Tasks : ConnJoinerResume(p)
  \/ \E i \in 1..MaxChecks : ConnRemoteReturn(i, "ok")
  \/ \E d \in RetrieveFailTickSteps : Tick(d)

SpecRetrieveFail == InitConn /\ [][NextRetrieveFail]_vars

\* ------------------------------------------- every outcome of every command

\* Tasks 1 and 2 call the six functions; every remote command can end in
\* each of the ways it has.
SettleCallers == {1}
SettleBatchCallers == {2}
SettleCounts == {<<0, 0>>, <<1, 2>>}

NextSettle ==
  \/ \E p \in SettleCallers : CallCheckOrgConnection(p)
  \/ \E p \in SettleCallers : CallGetFileOrgStatus(p, SourcePath("A"), FALSE)
  \/ \E p \in SettleCallers : GetStatusAfterConn(p)
  \/ \E p \in SettleCallers, o \in QueryOutcomes, d \in StatusDates :
       GetStatusQueryReturn(p, o, d)
  \/ \E p \in SettleBatchCallers :
       CallBatchGetFileOrgStatus(p, {SourcePath("A"), SourcePath("B")})
  \/ \E p \in SettleBatchCallers : BatchAfterConn(p)
  \/ \E p \in SettleBatchCallers, o \in BatchOutcomes, d \in StatusDates :
       \E r \in ReturnedChoices(p, o) : BatchQueryReturn(p, o, r, d)
  \/ \E p \in SettleCallers : CallCompareFileWithOrg(p, SourcePath("A"))
  \/ \E p \in SettleCallers : CompareAfterConn(p)
  \/ \E p \in SettleCallers, o \in CompareOutcomes : CompareRetrieveReturn(p, o)
  \/ \E p \in SettleBatchCallers : CallBatchCompareFilesWithOrg(p, DirectionFiles)
  \/ \E p \in SettleBatchCallers : BatchCompareAfterConn(p)
  \/ \E p \in SettleBatchCallers, o \in BatchCompareOutcomes :
       \E got \in GotChoices(p, o) : \E diff \in DiffChoices(p, got) :
          BatchCompareRetrieveReturn(p, o, got, diff)
  \/ \E p \in SettleBatchCallers : CallGetAggregateCoverage(p, "A")
  \/ \E p \in SettleBatchCallers, o \in QueryOutcomes : CoverageIdReturn(p, o)
  \/ \E p \in SettleBatchCallers, o \in QueryOutcomes, c \in SettleCounts :
       CoverageQueryReturn(p, o, c[1], c[2])
  \/ \E p \in Tasks : TaskReturn(p)
  \/ \E p \in Tasks : ConnOwnerResume(p)
  \/ \E p \in Tasks : ConnJoinerResume(p)
  \/ \E i \in 1..MaxChecks, o \in ConnOutcomes : ConnRemoteReturn(i, o)

SpecSettle == InitConn /\ [][NextSettle]_vars

\* ------------------------------------------------- the sizes of the commands

\* Task 1 runs the pipeline over fifty-one classes while task 2 compares
\* eleven classes in one call.
SizeCompareCallers == {2}

NextSize ==
  \/ \E m \in PrefetchCallers : run.phase = "idle" /\ StartPrefetch(m, FiftyOneClasses)
  \/ \E m \in PrefetchCallers : BatchAfterConn(m)
  \/ \E m \in PrefetchCallers, o \in {"ok", "err_timeout"}, d \in StatusDates :
       \E r \in ReturnedChoices(m, o) : BatchQueryReturn(m, o, r, d)
  \/ \E m \in PrefetchCallers : PrefetchAfterMeta(m)
  \/ \E m \in PrefetchCallers : PrefetchDelayDone(m)
  \/ \E p \in SizeCompareCallers : CallBatchCompareFilesWithOrg(p, ElevenClasses)
  \/ \E w \in Workers \cup SizeCompareCallers : BatchCompareAfterConn(w)
  \/ \E w \in Workers \cup SizeCompareCallers :
       BatchCompareRetrieveReturn(w, "ok", Range(CurrentBatch(w)), {})
  \/ \E p \in SizeCompareCallers : BatchCompareDelayDone(p)
  \/ \E w \in Workers : CompareWorkerAfterBatch(w)
  \/ \E m \in PrefetchCallers : PrefetchJoin(m, FALSE)
  \/ \E p \in Tasks : TaskReturn(p)
  \/ \E p \in Tasks : ConnOwnerResume(p)
  \/ \E p \in Tasks : ConnJoinerResume(p)
  \/ \E i \in 1..MaxChecks : ConnRemoteReturn(i, "ok")

SpecSize == InitConn /\ [][NextSize]_vars

\* --------------------------------------------------- the coverage of a class

\* Task 1 asks for the coverage of class A; the org answers with counts of
\* covered and uncovered lines up to MaxCount.
CoverageCallers == {1}

NextCoverage ==
  \/ \E p \in CoverageCallers : CallCheckOrgConnection(p)
  \/ \E p \in CoverageCallers : CallGetAggregateCoverage(p, "A")
  \/ \E p \in CoverageCallers, o \in {"found", "empty"} : CoverageIdReturn(p, o)
  \/ \E p \in CoverageCallers :
       /\ pc[p] = "cov_query"
       /\ \E o \in {"found", "empty"}, covered \in 0..MaxCount, uncovered \in 0..MaxCount :
            CoverageQueryReturn(p, o, covered, uncovered)
  \/ \E p \in Tasks : TaskReturn(p)
  \/ \E p \in Tasks : ConnOwnerResume(p)
  \/ \E i \in 1..MaxChecks : ConnRemoteReturn(i, "ok")

SpecCoverage == InitConn /\ [][NextCoverage]_vars

\* ------------------------------------------------- the scratch directories

\* Task 1 runs the pipeline over a class and a trigger, whose comparison
\* promises run side by side, while task 2 compares the class alone; a
\* millisecond may pass between any two steps.
ScratchTickSteps == {1}
ScratchCompareCallers == {2}

NextScratch ==
  \/ \E m \in PrefetchCallers :
       run.phase = "idle" /\ StartPrefetch(m, <<SourcePath("A"), SourcePath("T")>>)
  \/ \E m \in PrefetchCallers : BatchAfterConn(m)
  \/ \E m \in PrefetchCallers, d \in StatusDates :
       \E r \in ReturnedChoices(m, "ok") : BatchQueryReturn(m, "ok", r, d)
  \/ \E m \in PrefetchCallers : PrefetchAfterMeta(m)
  \/ \E w \in Workers : BatchCompareAfterConn(w)
  \/ \E w \in Workers : BatchCompareRetrieveReturn(w, "ok", Range(CurrentBatch(w)), {})
  \/ \E w \in Workers : CompareWorkerAfterBatch(w)
  \/ \E m \in PrefetchCallers : PrefetchJoin(m, FALSE)
  \/ \E p \in ScratchCompareCallers : CallCompareFileWithOrg(p, SourcePath("A"))
  \/ \E p \in ScratchCompareCallers : CompareAfterConn(p)
  \/ \E p \in ScratchCompareCallers : CompareRetrieveReturn(p, "equal")
  \/ \E p \in Tasks : TaskReturn(p)
  \/ \E p \in Tasks : ConnOwnerResume(p)
  \/ \E p \in Tasks : ConnJoinerResume(p)
  \/ \E i \in 1..MaxChecks : ConnRemoteReturn(i, "ok")
  \/ \E d \in ScratchTickSteps : Tick(d)

SpecScratch == InitConn /\ [][NextScratch]_vars

\* ------------------------------------------------- the work set of a run

\* The files a run finds: two classes and the two files of a bundle, and
\* eleven classes followed by the two files of the bundle
BundleFiles == <<BundleFile("Wc", "main"), BundleFile("Wc", "helper")>>
DedupeInputs ==
  {<<SourcePath("A"), SourcePath("B")>> \o BundleFiles, ElevenClasses \o BundleFiles}

NextDedupe ==
  \/ \E m \in PrefetchCallers, allFiles \in DedupeInputs :
       run.phase = "idle" /\ StartPrefetch(m, allFiles)
  \/ \E m \in PrefetchCallers : BatchAfterConn(m)
  \/ \E m \in PrefetchCallers, o \in {"ok", "err_timeout"}, d \in StatusDates :
       \E r \in ReturnedChoices(m, o) : BatchQueryReturn(m, o, r, d)
  \/ \E m \in PrefetchCallers : PrefetchAfterMeta(m)
  \/ \E w \in Workers : BatchCompareAfterConn(w)
  \/ \E w \in Workers, o \in {"ok", "err_timeout"} :
       \E r \in RetrievedChoices(w, o) : BatchCompareRetrieveReturn(w, o, r.got, r.diff)
  \/ \E w \in Workers : CompareWorkerAfterBatch(w)
  \/ \E m \in PrefetchCallers : PrefetchJoin(m, FALSE)
  \/ \E p \in Tasks : TaskReturn(p)
  \/ \E p \in Tasks : ConnOwnerResume(p)
  \/ \E i \in 1..MaxChecks, o \in StatusConnOutcomes : ConnRemoteReturn(i, o)

SpecDedupe == InitConn /\ [][NextDedupe]_vars

\* ------------------------------------------- lookups after a run

\* Task 1 runs the pipeline over a class and the two files of a bundle; task
\* 2 then asks for the status of the class's '-meta.xml' and of the bundle's
\* second file, as the decoration provider does.
CollapseFiles == <<SourcePath("A")>> \o BundleFiles
CollapsePaths == {Sidecar(SourcePath("A")), BundleFile("Wc", "helper")}
CollapseLookupCallers == {2}

NextCollapse ==
  \/ \E m \in PrefetchCallers : run.phase = "idle" /\ StartPrefetch(m, CollapseFiles)
  \/ \E m \in PrefetchCallers : BatchAfterConn(m)
  \/ \E m \in PrefetchCallers, d \in StatusDates :
       \E r \in ReturnedChoices(m, "ok") : BatchQueryReturn(m, "ok", r, d)
  \/ \E m \in PrefetchCallers : PrefetchAfterMeta(m)
  \/ \E w \in Workers : BatchCompareAfterConn(w)
  \/ \E w \in Workers : \E r \in RetrievedChoices(w, "ok") :
       BatchCompareRetrieveReturn(w, "ok", r.got, r.diff)
  \/ \E w \in Workers : CompareWorkerAfterBatch(w)
  \/ \E m \in PrefetchCallers : PrefetchJoin(m, FALSE)
  \/ \E p \in CollapseLookupCallers, g \in CollapsePaths :
       run.phase = "done" /\ CallGetFileOrgStatus(p, g, TRUE)
  \/ \E p \in CollapseLookupCallers : GetStatusAfterConn(p)
  \/ \E p \in CollapseLookupCallers, o \in {"found", "empty"}, d \in RemoteDates :
       GetStatusQueryReturn(p, o, d)
  \/ \E p \in Tasks : TaskReturn(p)
  \/ \E p \in Tasks : ConnOwnerResume(p)
  \/ \E i \in 1..MaxChecks : ConnRemoteReturn(i, "ok")

SpecCollapse == InitConn /\ [][NextCollapse]_vars

\* ------------------------------------------- clearing the connection cache

\* A command handler calls clearOrgCache() (switchOrg, refreshFileStatus,
\* refreshAllFileStatus); the promises in flight at that moment are noted.
CallClearOrgCache(p) ==
  /\ pc[p] = "idle"
  /\ orgConnectionCache' = EmptyOrgCache
  /\ sourceStatusCache' = EmptyMap
  /\ pc' = [pc EXCEPT ![p] = "clear_ret"]
  /\ loc' = [loc EXCEPT ![p].stale = InFlightChecks]
  /\ UNCHANGED <<stack, pendingOrgConnectionCheck, checks, fileDiffCache, timeVars,
                 envVars, uiVars, fsVars, pipeVars, covVars>>

\* The handler goes on to a function that calls checkOrgConnection().
CheckAfterClear(p) ==
  /\ pc[p] = "clear_ret"
  /\ ConnEnter(p, "check_ret", stack[p], loc[p])
  /\ UNCHANGED <<timeVars, envVars, cacheVars, uiVars, fsVars, pipeVars, covVars>>

\* Task 1 checks the connection as the status bar does; task 2 is the command
\* handler that clears the cache and checks again.
ClearCheckCallers == {1}
ClearCallers == {2}
ClearTickSteps == {OrgCacheTTL}

NextClear ==
  \/ \E p \in ClearCheckCallers : CallCheckOrgConnection(p)
  \/ \E p \in ClearCallers : CallClearOrgCache(p)
  \/ \E p \in ClearCallers : CheckAfterClear(p)
  \/ \E p \in Tasks : TaskReturn(p)
  \/ \E p \in Tasks : ConnOwnerResume(p)
  \/ \E p \in Tasks : ConnJoinerResume(p)
  \/ \E i \in 1..MaxChecks, o \in ConnOutcomes : ConnRemoteReturn(i, o)
  \/ \E d \in ClearTickSteps : Tick(d)

SpecClear == InitConn /\ [][NextClear]_vars

\* ------------------------------------------- a difference without a date

\* Task 1 asks for the status of the class, and gets a record, no record or
\* an error, and for the status of the trigger in a batch, of which the query
\* returns a record or none; task 2 compares the two files with the org.
UnknownStatusCallers == {1}
UnknownStatusOutcomes == {"found", "empty", "err_timeout"}
UnknownCompareCallers == {2}

NextUnknown ==
  \/ \E p \in UnknownStatusCallers : CallGetFileOrgStatus(p, SourcePath("A"), FALSE)
  \/ \E p \in UnknownStatusCallers : GetStatusAfterConn(p)
  \/ \E p \in UnknownStatusCallers, o \in UnknownStatusOutcomes, d \in RemoteDates :
       GetStatusQueryReturn(p, o, d)
  \/ \E p \in UnknownStatusCallers : CallBatchGetFileOrgStatus(p, {SourcePath("T")})
  \/ \E p \in UnknownStatusCallers : BatchAfterConn(p)
  \/ \E p \in UnknownStatusCallers, d \in RemoteDates :
       pc[p] = "bs_query" /\ \E r \in SUBSET loc[p].qnames : BatchQueryReturn(p, "ok", r, d)
  \/ \E p \in UnknownCompareCallers : CallBatchCompareFilesWithOrg(p, DirectionFiles)
  \/ \E p \in UnknownCompareCallers : BatchCompareAfterConn(p)
  \/ \E p \in UnknownCompareCallers, o \in {"ok", "err_timeout"} :
       \E got \in SUBSET Range(CurrentBatch(p)) : \E diff \in SUBSET got :
          BatchCompareRetrieveReturn(p, o, got, diff)
  \/ \E p \in Tasks : TaskReturn(p)
  \/ \E p \in Tasks : ConnOwnerResume(p)
  \/ \E p \in Tasks : ConnJoinerResume(p)
  \/ \E i \in 1..MaxChecks : ConnRemoteReturn(i, "ok")

SpecUnknown == InitConn /\ [][NextUnknown]_vars

\* ------------------------------------------- runs that end

\* Runs over a class and a trigger (two metadata batches) and over eleven
\* classes (one metadata batch, two compare batches), whose queries and
\* retrieves answer or time out.
LiveInputs == {<<SourcePath("A"), SourcePath("T")>>, ElevenClasses}

NextLive ==
  \/ \E m \in PrefetchCallers, allFiles \in LiveInputs :
       run.phase = "idle" /\ StartPrefetch(m, allFiles)
  \/ \E m \in PrefetchCallers : BatchAfterConn(m)
  \/ \E m \in PrefetchCallers, o \in {"ok", "err_timeout"}, d \in StatusDates :
       \E r \in ReturnedChoices(m, o) : BatchQueryReturn(m, o, r, d)
  \/ \E m \in PrefetchCallers : PrefetchAfterMeta(m)
  \/ \E w \in Workers : BatchCompareAfterConn(w)
  \/ \E w \in Workers, o \in {"ok", "err_timeout"} :
       \E r \in RetrievedChoices(w, o) : BatchCompareRetrieveReturn(w, o, r.got, r.diff)
  \/ \E w \in Workers : CompareWorkerAfterBatch(w)
  \/ \E m \in PrefetchCallers : PrefetchJoin(m, FALSE)
  \/ \E p \in Tasks : TaskReturn(p)
  \/ \E p \in Tasks : ConnOwnerResume(p)
  \/ \E i \in 1..MaxChecks, o \in StatusConnOutcomes : ConnRemoteReturn(i, o)

\* The scheduling of the event loop: a continuation whose promise has settled
\* is run, and execCommandWithTimeout settles every command, by its answer,
\* its failure or the rejection of its timer.
SpecLive == InitConn /\ [][NextLive]_vars /\ WF_vars(run.phase = "running" /\ NextLive)

\* ------------------------------------------- lookups in the diff cache

\* Task 1 compares single paths: a class, a file of the bundle and that
\* file's '-meta.xml'; task 2 compares the class and the bundle file in a
\* batch; entries are invalidated by path.
LookupCompareInputs ==
  {SourcePath("A"), BundleFile("Wc", "main"), Sidecar(BundleFile("Wc", "main"))}
LookupBatchInputs == {<<SourcePath("A"), BundleFile("Wc", "main")>>}
LookupCallers == {1}
LookupBatchCallers == {2}

\* The paths getFileDiffStatus is asked about: every form of the class's and
\* of the bundle's paths
LookupQueryInputs ==
  [base : {"A", "Wc"}, bs : BOOLEAN, meta : {0, 1, 2}, part : {"src", "main", "helper"}]

NextLookup ==
  \/ \E p \in LookupCallers, f \in LookupCompareInputs : CallCompareFileWithOrg(p, f)
  \/ \E p \in LookupCallers : CompareAfterConn(p)
  \/ \E p \in LookupCallers, o \in {"equal", "differ"} : CompareRetrieveReturn(p, o)
  \/ \E p \in LookupBatchCallers, files \in LookupBatchInputs :
       CallBatchCompareFilesWithOrg(p, files)
  \/ \E p \in LookupBatchCallers : BatchCompareAfterConn(p)
  \/ \E p \in LookupBatchCallers :
       \E got \in GotChoices(p, "ok") : \E diff \in DiffChoices(p, got) :
          BatchCompareRetrieveReturn(p, "ok", got, diff)
  \/ \E p \in LookupCallers, f \in LookupCompareInputs : CallInvalidateFileCache(p, f)
  \/ \E p \in Tasks : TaskReturn(p)
  \/ \E p \in Tasks : ConnOwnerResume(p)
  \/ \E p \in Tasks : ConnJoinerResume(p)
  \/ \E i \in 1..MaxChecks : ConnRemoteReturn(i, "ok")

SpecLookup == InitConn /\ [][NextLookup]_vars

\* ------------------------------------------- what the commands print

\* The text a command prints: warning lines, without a brace or bracket
\* ("warn") or with one ("warn["), and then the JSON payload.
WarningLines == {"warn", "warn["}
CliOutputs ==
  {<<"json">>} \cup {<<w, "json">> : w \in WarningLines}
  \cup {<<w, v, "json">> : w \in WarningLines, v \in WarningLines}

\* JSON.parse(result): the text must be the payload and nothing else
JsonParse(output) == output = <<"json">>

\* parseJsonWithWarnings(output): the text from the first '{' or '[' on is
\* parsed; a bracket inside a warning makes that text start in the warning.
parseJsonWithWarnings(output) ==
  LET braces == {i \in 1..Len(output) : output[i] \in {"json", "warn["}}
      jsonStart == CHOOSE i \in braces : \A j \in braces : i <= j
  IN output[jsonStart] = "json"

\* The parser each function gives the text of its command to
Parses(where, output) ==
  IF where \in {"cmp_retrieve", "bc_retrieve"} THEN parseJsonWithWarnings(output)
  ELSE JsonParse(output)

\* How the command awaited at where ends for the function when it printed
\* output with a payload that says o: the parser's error is thrown in its place
Response(where, output, o) == IF Parses(where, output) THEN o ELSE "err_parse"

\* Task 2 calls the four functions that send a query or a retrieve, each
\* after its connection check; the clock can pass the connection cache's TTL.
WarnCallers == {2}
WarnTickSteps == {OrgCacheTTL}

NextWarn ==
  \/ \E p \in WarnCallers : CallGetFileOrgStatus(p, SourcePath("A"), FALSE)
  \/ \E p \in WarnCallers : GetStatusAfterConn(p)
  \/ \E p \in WarnCallers, out \in CliOutputs, d \in StatusDates :
       GetStatusQueryReturn(p, Response("gs_query", out, "found"), d)
  \/ \E p \in WarnCallers : CallBatchGetFileOrgStatus(p, {SourcePath("A")})
  \/ \E p \in WarnCallers : BatchAfterConn(p)
  \/ \E p \in WarnCallers, out \in CliOutputs, d \in StatusDates :
       \E r \in ReturnedChoices(p, Response("bs_query", out, "ok")) :
          BatchQueryReturn(p, Response("bs_query", out, "ok"), r, d)
  \/ \E p \in WarnCallers : CallCompareFileWithOrg(p, SourcePath("A"))
  \/ \E p \in WarnCallers : CompareAfterConn(p)
  \/ \E p \in WarnCallers, out \in CliOutputs :
       CompareRetrieveReturn(p, Response("cmp_retrieve", out, "differ"))
  \/ \E p \in WarnCallers : CallBatchCompareFilesWithOrg(p, DirectionFiles)
  \/ \E p \in WarnCallers : BatchCompareAfterConn(p)
  \/ \E p \in WarnCallers, out \in CliOutputs :
       \E got \in GotChoices(p, Response("bc_retrieve", out, "ok")) :
          BatchCompareRetrieveReturn(p, Response("bc_retrieve", out, "ok"), got, {})
  \/ \E p \in Tasks : TaskReturn(p)
  \/ \E p \in Tasks : ConnOwnerResume(p)
  \/ \E i \in 1..MaxChecks, out \in CliOutputs :
       ConnRemoteReturn(i, Response("conn_remote", out, "ok"))
  \/ \E d \in WarnTickSteps : Tick(d)

SpecWarn == InitConn /\ [][NextWarn]_vars

\* ------------------------------------------- the decoration of one file

\* Task 1 is the decoration provider of a class and of its sidecar; task 2
\* compares the class. The clock step lets every cache expire.
DecoCompareCallers == {2}
DecoCallers == DecorationCallers \cup DecoCompareCallers
DecoTickSteps == {OrgCacheTTL}

NextDeco ==
  \/ \E p \in DecorationCallers, f \in {SourcePath("A"), Sidecar(SourcePath("A"))} :
       CallProvideFileDecoration(p, f)
  \/ \E p \in DecorationCallers : ProvideFileDecorationAfterStatus(p)
  \/ \E p \in DecoCompareCallers : CallBatchCompareFilesWithOrg(p, <<SourcePath("A")>>)
  \/ \E p \in DecoCompareCallers : BatchCompareAfterConn(p)
  \/ \E p \in DecoCompareCallers, diff \in SUBSET {SourcePath("A")} :
       BatchCompareRetrieveReturn(p, "ok", {SourcePath("A")}, diff)
  \/ \E p \in DecoCallers : GetStatusAfterConn(p)
  \/ \E p \in DecoCallers, o \in {"found", "empty"}, d \in StatusDates :
       GetStatusQueryReturn(p, o, d)
  \/ \E p \in DecoCallers : TaskReturn(p)
  \/ \E p \in DecoCallers : ConnOwnerResume(p)
  \/ \E i \in 1..MaxChecks, o \in StatusConnOutcomes : ConnRemoteReturn(i, o)
  \/ \E d \in DecoTickSteps : Tick(d)

SpecDeco == InitConn /\ [][NextDeco]_vars

\* ------------------------------------------- refresh all over calls in flight

\* refreshAll(true) up to the await of findFiles in prefetchAllSalesforceFiles:
\* clearSourceCache(), the decoration cache cleared, the search started.
RefreshAll(m) ==
  /\ pc[m] = "idle"
  /\ run.phase = "idle"
  /\ sourceStatusCache' = EmptyMap
  /\ fileDiffCache' = EmptyMap
  /\ decorationCache' = EmptyMap
  /\ run' = [NoRun EXCEPT !.phase = "finding"]
  /\ UNCHANGED <<pendingUpdates, statusBar, prefetchBar, timeVars, envVars, connVars, fsVars,
                 procVars, covVars>>

\* Task 2 makes the calls of an earlier run, a metadata fetch or a comparison
\* of the class, before the refresh; task 1 is the handler of the refresh,
\* whose run finds the class.
StaleCallers == {2}
StaleInputs == {<<SourcePath("A")>>}

NextStale ==
  \/ \E p \in StaleCallers :
       run.phase = "idle" /\ CallBatchGetFileOrgStatus(p, {SourcePath("A")})
  \/ \E p \in StaleCallers :
       run.phase = "idle" /\ CallBatchCompareFilesWithOrg(p, <<SourcePath("A")>>)
  \/ \E m \in PrefetchCallers : RefreshAll(m)
  \/ \E m \in PrefetchCallers, allFiles \in StaleInputs :
       run.phase = "finding" /\ StartPrefetch(m, allFiles)
  \/ \E p \in PrefetchCallers \cup StaleCallers : BatchAfterConn(p)
  \/ \E p \in PrefetchCallers \cup StaleCallers, o \in {"ok", "err_timeout"}, d \in StatusDates :
       \E r \in ReturnedChoices(p, o) : BatchQueryReturn(p, o, r, d)
  \/ \E m \in PrefetchCallers : PrefetchAfterMeta(m)
  \/ \E w \in Workers \cup StaleCallers : BatchCompareAfterConn(w)
  \/ \E w \in Workers \cup StaleCallers, o \in {"ok", "err_timeout"} :
       \E r \in RetrievedChoices(w, o) : BatchCompareRetrieveReturn(w, o, r.got, r.diff)
  \/ \E w \in Workers : CompareWorkerAfterBatch(w)
  \/ \E m \in PrefetchCallers : PrefetchJoin(m, FALSE)
  \/ \E p \in Tasks : TaskReturn(p)
  \/ \E p \in Tasks : ConnOwnerResume(p)
  \/ \E p \in Tasks : ConnJoinerResume(p)
  \/ \E i \in 1..MaxChecks : ConnRemoteReturn(i, "ok")

SpecStale == InitConn /\ [][NextStale]_vars

\* ------------------------------------------- the prefetch item of two runs

\* showPrefetchProgress(current, total): isPrefetching = true, the text set
\* and the item shown
showPrefetchProgress(bar, current) ==
  [bar EXCEPT !.isPrefetching = TRUE, !.shown = TRUE, !.text = <<"loading", current>>]

\* hidePrefetchProgress(total): isPrefetching = false, the completion message
\* set, and a timer of 3 seconds started
hidePrefetchProgress(bar) ==
  [bar EXCEPT !.isPrefetching = FALSE, !.text = <<"synced">>, !.timers = @ + 1]

\* isPrefetchInProgress()
isPrefetchInProgress == prefetchBar.isPrefetching

\* The batches a run of these counts before it ends
FlagBatches == 2

\* What a run of prefetchAllSalesforceFiles does to the prefetch item.  It
\* has found files: showPrefetchProgress(0, allFiles.length).
RunShowsProgress(p) ==
  /\ pc[p] = "idle"
  /\ prefetchBar' = showPrefetchProgress(prefetchBar, 0)
  /\ pc' = [pc EXCEPT ![p] = "pf_shown"]
  /\ loc' = [loc EXCEPT ![p].k = 0]
  /\ UNCHANGED <<stack, decorationCache, pendingUpdates, statusBar, timeVars, envVars,
                 connVars, cacheVars, fsVars, pipeVars, covVars>>

\* A batch of the run has been counted: updateProgress()
RunUpdatesProgress(p) ==
  /\ pc[p] = "pf_shown"
  /\ loc[p].k < FlagBatches
  /\ prefetchBar' = showPrefetchProgress(prefetchBar, loc[p].k + 1)
  /\ loc' = [loc EXCEPT ![p].k = @ + 1]
  /\ UNCHANGED <<pc, stack, decorationCache, pendingUpdates, statusBar, timeVars, envVars,
                 connVars, cacheVars, fsVars, pipeVars, covVars>>

\* All batches are counted and the comparisons settled: the run clears the
\* decoration cache, calls hidePrefetchProgress(totalUniqueFiles) and ends.
RunHidesProgress(p) ==
  /\ pc[p] = "pf_shown"
  /\ loc[p].k = FlagBatches
  /\ prefetchBar.timers < NumProcs
  /\ prefetchBar' = hidePrefetchProgress(prefetchBar)
  /\ decorationCache' = EmptyMap
  /\ pc' = [pc EXCEPT ![p] = "prefetch_ret"]
  /\ UNCHANGED <<stack, loc, pendingUpdates, statusBar, timeVars, envVars, connVars,
                 cacheVars, fsVars, pipeVars, covVars>>

\* A timer of hidePrefetchProgress fires: the item is hidden unless
\* isPrefetching is true again.
HideTimerFires ==
  /\ prefetchBar.timers > 0
  /\ prefetchBar' = [prefetchBar EXCEPT !.timers = @ - 1,
                                        !.shown = IF prefetchBar.isPrefetching THEN @ ELSE FALSE]
  /\ UNCHANGED <<decorationCache, pendingUpdates, statusBar, timeVars, envVars, connVars,
                 cacheVars, fsVars, procVars, pipeVars, covVars>>

\* Every task can be a run: the one of the activation, and those of refreshAll.
NextFlag ==
  \/ \E p \in Procs : RunShowsProgress(p)
  \/ \E p \in Procs : RunUpdatesProgress(p)
  \/ \E p \in Procs : RunHidesProgress(p)
  \/ HideTimerFires
  \/ \E p \in Procs : TaskReturn(p)

SpecFlag == InitConn /\ [][NextFlag]_vars

\* ------------------------------------------- notifications and the provider

\* Task 1 runs the pipeline over a class and a trigger; task 2 is the
\* decoration provider of the class and of its sidecar, before, while and
\* after the run compares.
NotifyInputs == {<<SourcePath("A"), SourcePath("T")>>}
NotifyCallers == {2}

NextNotify ==
  \/ \E m \in PrefetchCallers, allFiles \in NotifyInputs :
       run.phase = "idle" /\ StartPrefetch(m, allFiles)
  \/ \E m \in PrefetchCallers : BatchAfterConn(m)
  \/ \E m \in PrefetchCallers, d \in StatusDates :
       \E r \in ReturnedChoices(m, "ok") : BatchQueryReturn(m, "ok", r, d)
  \/ \E m \in PrefetchCallers : PrefetchAfterMeta(m)
  \/ \E w \in Workers : BatchCompareAfterConn(w)
  \/ \E w \in Workers, o \in {"ok", "err_timeout"} :
       \E r \in RetrievedChoices(w, o) : BatchCompareRetrieveReturn(w, o, r.got, r.diff)
  \/ \E w \in Workers : CompareWorkerAfterBatch(w)
  \/ \E m \in PrefetchCallers : PrefetchJoin(m, FALSE)
  \/ \E p \in NotifyCallers, f \in CallPaths : CallProvideFileDecoration(p, f)
  \/ \E p \in NotifyCallers : ProvideFileDecorationAfterStatus(p)
  \/ \E p \in NotifyCallers : GetStatusAfterConn(p)
  \/ \E p \in NotifyCallers, o \in {"found", "empty"}, d \in StatusDates :
       GetStatusQueryReturn(p, o, d)
  \/ \E p \in Tasks : TaskReturn(p)
  \/ \E p \in Tasks : ConnOwnerResume(p)
  \/ \E i \in 1..MaxChecks : ConnRemoteReturn(i, "ok")

SpecNotify == InitConn /\ [][NextNotify]_vars

\* ------------------------------------------- saves and the provider

\* Task 1 is the decoration provider of a class and of its sidecar; the two
\* documents are saved, and the timer of queueRefresh fires.
RefreshCallers == {1}

NextRefresh ==
  \/ \E p \in RefreshCallers, f \in CallPaths : CallProvideFileDecoration(p, f)
  \/ \E p \in RefreshCallers : ProvideFileDecorationAfterStatus(p)
  \/ \E p \in RefreshCallers : GetStatusAfterConn(p)
  \/ \E p \in RefreshCallers, o \in {"found", "empty"}, d \in StatusDates :
       GetStatusQueryReturn(p, o, d)
  \/ \E p \in RefreshCallers : CallCheckOrgConnection(p)
  \/ \E p \in RefreshCallers : TaskReturn(p)
  \/ \E p \in RefreshCallers : ConnOwnerResume(p)
  \/ \E i \in 1..MaxChecks : ConnRemoteReturn(i, "ok")
  \/ \E f \in CallPaths : SaveDocument(f)
  \/ RefreshTimerFires

SpecRefresh == InitConn /\ [][NextRefresh]_vars

\* C1: single-flight connection check.  At most one 'sf org display' check is
\* in flight at any time; a caller that finds the cache expired and a check
\* pending issues no remote command of its own, waits for that pending check
\* and returns that check's result.
C1_SingleFlight ==
  /\ Cardinality(InFlightChecks) <= 1
  /\ \A p \in Procs :
       loc[p].mode = "joined" =>
         /\ loc[p].cmds = 0
         /\ loc[p].waitOn \in 1..Len(checks)
         /\ pc[p] = "check_ret" => loc[p].connRes = checks[loc[p].waitOn].result

\* Two callers shared one check: one started it, the other joined it and has
\* returned with its result.
C1_Witness ==
  \E p, q \in Procs :
    /\ p # q
    /\ pc[p] = "check_ret" /\ loc[p].mode = "joined"
    /\ loc[q].mode = "owner" /\ loc[q].waitOn = loc[p].waitOn
    /\ Len(checks) = 1

\* C2: two calls of getFileOrgStatus for the same supported path, the second
\* made while the first is still in flight, issue one remote metadata query
\* in total: while connected, no two calls for the same path are awaiting a
\* query of their own at the same time.
C2_SingleFlightQuery ==
  \A p, q \in Procs :
    (/\ p # q
     /\ pc[p] = "gs_query" /\ pc[q] = "gs_query"
     /\ loc[p].path = loc[q].path
     /\ getMetadataTypeFromPath(loc[p].path) # NoInfo
     /\ loc[p].connRes.connected /\ loc[q].connRes.connected)
    => loc[p].queries + loc[q].queries <= 1

\* C3: a batch whose files are all cache misses, made while connected, issues
\* exactly one remote query that covers the names of all its files; the map
\* it returns has an entry for every input file, and that entry is 'Component
\* not found in org' for each name the answer holds no record of.
C3_BatchEquivalence ==
  \A p \in Procs :
    LET l == loc[p]
    IN (/\ pc[p] = "batch_ret"
        /\ l.files # {}
        /\ l.connRes.connected
        /\ l.uncached = l.files)
       => /\ l.queries = 1
          /\ l.qnames = {BatchName(f) : f \in l.files}
          /\ DOMAIN l.results = l.files
          /\ l.qout \notin QueryErrors =>
               \A f \in l.files :
                 BatchName(f) \notin l.returned => l.results[f] = NotFoundData

C3_Witness ==
  \E p \in Procs :
    /\ pc[p] = "batch_ret"
    /\ loc[p].connRes.connected
    /\ loc[p].files = {SourcePath("A"), SourcePath("B")}
    /\ loc[p].uncached = loc[p].files
    /\ loc[p].qout = "ok"
    /\ loc[p].returned = {"A"}
    /\ loc[p].results[SourcePath("B")] = NotFoundData
    /\ loc[p].results[SourcePath("A")] # NotFoundData

\* C4: invalidateFileCache called with the sidecar form p + '-meta.xml'
\* invalidates the status cache entry of p as well: after the call a lookup
\* with p finds no entry.
C4_InvalidateBothForms ==
  [][\A p \in Procs, f \in {SourcePath("A")} :
       CallInvalidateFileCache(p, Sidecar(f)) => StatusCacheAny(f)' = NoEntry]_vars

\* C7: every scratch directory a call of compareFileWithOrg or of
\* batchCompareFilesWithOrg created has been removed when the call returns,
\* whichever way it ends.
C7_ScratchRemoved ==
  [][\A p \in Tasks :
       (pc[p] \in {"cmp_retrieve", "bc_retrieve"}
        /\ pc'[p] \in {"compare_ret", "bcompare_ret"})
       => loc'[p].dirs \cap tempDirs' = {}]_vars

\* C5: whenever provideFileDecoration returns the in-sync checkmark for a
\* file, the diff cache holds at that moment a comparison result for the file
\* that says the contents do not differ.
C5_NoFalseInSyncDecoration ==
  [][\A p \in Tasks, f \in CallPaths :
       (pc[p] # "deco_ret" /\ pc'[p] = "deco_ret"
        /\ loc'[p].uri = f /\ loc'[p].deco = "check")
       => (getFileDiffStatus(f).isCompared /\ ~getFileDiffStatus(f).hasDifference)']_vars

\* C6: updateSyncStatus never shows 'In sync with org' for a file that has a
\* metadata status entry and no result in the diff cache.
C6_NoFalseInSyncBar ==
  [][\A f \in CallPaths :
       (statusBar' # statusBar /\ statusBar'.text = "insync" /\ statusBar'.file = f)
       => ~(StatusCacheAny(f) # NoEntry /\ ~getFileDiffStatus(f).isCompared)']_vars

\* C8: when a prefetch run over N deduplicated files is over, every one of
\* the N files has had its per-file outcome, and the counts of the summary
\* are those of the files with an outcome.
C8_PipelineComplete ==
  run.phase = "done" =>
    /\ Cardinality(run.emitted) = run.total
    /\ run.summary.localChanges + run.summary.orgNewer
         = Cardinality({f \in run.emitted : getFileDiffStatus(f).hasDifference})

\* C9: the comparison promise of a metadata batch compares only files whose
\* metadata fetch has returned.
C9_CompareAfterFetch ==
  \A w \in Workers : pc[w] # "idle" => Range(loc[w].mbatch) \subseteq run.fetched

\* C9 witness: the fetch of the second metadata batch is in flight while a
\* retrieve of the first batch's comparison is in flight.
C9_Witness ==
  /\ run.i = 2
  /\ pc[1] = "bs_query"
  /\ pc[PromiseTask(1)] = "bc_retrieve"
  /\ Range(loc[PromiseTask(1)].mbatch) = Range(run.batches[1].files)

\* C10 as stated: every run fires the notification for all files exactly
\* once, after all its comparison promises have settled, and no notification
\* for one file after it.
C10_OneFinalEveryRun ==
  /\ run.final <= 1
  /\ run.final = 1 => \A w \in Workers : pc[w] = "idle"
  /\ run.late = 0
  /\ run.phase = "done" => run.final = 1

\* C10 amended: a run that found at least one file fires the notification for
\* all files exactly once, after all its comparison promises have settled, and
\* no notification for one file after it; a run that found no file fires none.
C10_OneFinalAfterJoin ==
  /\ run.final <= 1
  /\ run.final = 1 => \A w \in Workers : pc[w] = "idle"
  /\ run.late = 0
  /\ run.phase = "done" => run.final = (IF run.found > 0 THEN 1 ELSE 0)

\* C10 witness: a run that fired notifications for its files is over and has
\* fired the notification for all files.
C10_Witness ==
  /\ run.phase = "done"
  /\ run.final = 1
  /\ run.perFile > 0
  /\ run.spawned = 2

\* C11: an entry of the status cache written at time T, with the TTL of 60 s,
\* is a hit at T + 59 s and a miss at T + 61 s.  A connected call of
\* getFileOrgStatus without preferCache that finds it 59 s old returns its
\* data and issues no query; one that finds it 61 s old does not return from
\* the cache, and issues a query when the path is a supported one.  A
\* connected call of batchGetFileOrgStatus answers a file whose entry is 59 s
\* old from the cache and leaves its name out of the query; a file whose
\* entry is 61 s old is among those the one query asks for.
C11_TtlExpiry ==
  [][\A p \in Procs :
       /\ (GetStatusAfterConn(p) /\ loc[p].connRes.connected /\ ~loc[p].prefer
           /\ MapGet(sourceStatusCache, StatusKey(loc[p].path)) # NoEntry)
          => LET f == loc[p].path
                 e == MapGet(sourceStatusCache, StatusKey(f))
             IN /\ now - e.timestamp = getCacheTTL - 1000
                     => /\ pc'[p] = "status_ret"
                        /\ loc'[p].fileRes = e.data
                        /\ loc'[p].queries = 0
                /\ now - e.timestamp = getCacheTTL + 1000
                     => /\ loc'[p].fileRes # e.data
                        /\ getMetadataTypeFromPath(f) # NoInfo
                             => pc'[p] = "gs_query" /\ loc'[p].queries = 1
       /\ (BatchAfterConn(p) /\ loc[p].connRes.connected)
          => \A f \in loc[p].files :
               LET e == MapGet(sourceStatusCache, StatusKey(f))
               IN e # NoEntry =>
                    /\ now - e.timestamp = getCacheTTL - 1000
                         => /\ f \notin loc'[p].uncached
                            /\ BatchName(f) \notin loc'[p].qnames
                            /\ loc'[p].results[f] = e.data
                    /\ now - e.timestamp = getCacheTTL + 1000
                         => /\ pc'[p] = "bs_query"
                            /\ loc'[p].queries = 1
                            /\ f \in loc'[p].uncached
                            /\ BatchName(f) \in loc'[p].qnames]_vars

\* A single-file call has returned an entry that was 59 s old without a
\* query, while the batch call found its two files' entries of the same age.
C11_Witness ==
  \E p \in SingleCallers, q \in BatchCallers :
    /\ pc[p] = "status_ret" /\ loc[p].connRes.connected /\ ~loc[p].prefer
    /\ loc[p].queries = 0
    /\ MapGet(sourceStatusCache, StatusKey(loc[p].path)) # NoEntry
    /\ now - MapGet(sourceStatusCache, StatusKey(loc[p].path)).timestamp
         = getCacheTTL - 1000
    /\ loc[p].fileRes = MapGet(sourceStatusCache, StatusKey(loc[p].path)).data
    /\ pc[q] = "batch_ret" /\ loc[q].connRes.connected
    /\ loc[q].files = {SourcePath("A"), SourcePath("B")}
    /\ loc[q].queries = 0
    /\ \A f \in loc[q].files :
         /\ MapGet(sourceStatusCache, f) # NoEntry
         /\ now - MapGet(sourceStatusCache, f).timestamp = getCacheTTL - 1000

\* C12: a metadata status query that ends in a timeout, a process failure, a
\* parse failure or a response that is not a successful query result leaves
\* the status cache unchanged, in getFileOrgStatus and in
\* batchGetFileOrgStatus; 'Component not found in org' is written to the
\* cache only when the query succeeded.
C12_TransientNotCached ==
  [][\A p \in Procs :
       (pc[p] \in {"gs_query", "bs_query"} /\ pc'[p] # pc[p])
       => /\ loc'[p].qout \in QueryErrors \cup {"status_nonzero"}
               => sourceStatusCache' = sourceStatusCache
          /\ \A k \in DOMAIN sourceStatusCache' :
               (/\ sourceStatusCache'[k].data = NotFoundData
                /\ MapGet(sourceStatusCache, k) # sourceStatusCache'[k])
               => loc'[p].qout \in {"empty", "ok"}]_vars

\* C13, as stated: after a connection check completed at time T, with any
\* outcome, every call of checkOrgConnection before T + TTL returns at once
\* with the cached outcome and issues no remote command.
C13_CachedOutcomeReturned ==
  [][\A p \in Procs :
       (/\ CallCheckOrgConnection(p)
        /\ orgConnectionCache.lastChecked # 0
        /\ now - orgConnectionCache.lastChecked < OrgCacheTTL)
       => /\ pc'[p] = "check_ret"
          /\ checks' = checks
          /\ loc'[p].cmds = 0
          /\ loc'[p].connRes = [connected |-> orgConnectionCache.connected,
                                errorType |-> orgConnectionCache.errorType]]_vars

\* C13, amended: such a call returns at once and issues no remote command;
\* it returns the cached outcome, unless the CLI is known to be missing, in
\* which case it returns 'cli_not_installed'.
C13_NoRetryWithinTTL ==
  [][\A p \in Procs :
       (/\ CallCheckOrgConnection(p)
        /\ orgConnectionCache.lastChecked # 0
        /\ now - orgConnectionCache.lastChecked < OrgCacheTTL)
       => /\ pc'[p] = "check_ret"
          /\ checks' = checks
          /\ loc'[p].cmds = 0
          /\ loc'[p].connRes =
               IF cliInstalled = "false"
               THEN [connected |-> FALSE, errorType |-> "cli_not_installed"]
               ELSE [connected |-> orgConnectionCache.connected,
                     errorType |-> orgConnectionCache.errorType]]_vars

\* A call made one second before the TTL of a failed check ran out has
\* returned the cached failure without a command.
C13_Witness ==
  \E p \in Procs :
    /\ pc[p] = "check_ret" /\ loc[p].mode = "cached" /\ loc[p].cmds = 0
    /\ loc[p].connRes = [connected |-> FALSE, errorType |-> "auth_expired"]
    /\ orgConnectionCache.errorType = "auth_expired"
    /\ now - orgConnectionCache.lastChecked = OrgCacheTTL - 1000

\* C14: with preferCache set, a connected call of getFileOrgStatus that finds
\* an entry of any age returns it and issues no query; and a call of
\* provideFileDecoration, whatever the caches hold, never has a remote
\* command issued: it neither sends a metadata query nor starts a connection
\* check.
C14_RepaintNoRemote ==
  [][\A p \in Procs :
       /\ (/\ GetStatusAfterConn(p)
           /\ loc[p].connRes.connected /\ loc[p].prefer
           /\ MapGet(sourceStatusCache, StatusKey(loc[p].path)) # NoEntry)
          => /\ pc'[p] = Head(stack[p])
             /\ loc'[p].queries = 0
             /\ loc'[p].fileRes = MapGet(sourceStatusCache, StatusKey(loc[p].path)).data
       /\ "deco_status" \in Range(stack'[p])
          => pc'[p] \notin {"gs_query", "conn_own"}]_vars

\* C15: for a path that getMetadataTypeFromPath does not classify,
\* getFileOrgStatus returns 'Not a Salesforce metadata file' without reading
\* the status cache and without a remote command: the call starts no
\* connection check, sends no query, writes no cache, and its result is that
\* error whatever the caches hold.
C15_UnsupportedUntouched ==
  [][\A p \in Procs, f \in CallPaths :
       getMetadataTypeFromPath(f) = NoInfo
       => /\ \A prefer \in BOOLEAN :
               CallGetFileOrgStatus(p, f, prefer) => checks' = checks
          /\ (GetStatusAfterConn(p) /\ loc[p].path = f)
             => /\ pc'[p] = "status_ret"
                /\ loc'[p].queries = 0
                /\ loc'[p].fileRes = ErrData("Not a Salesforce metadata file")
                /\ sourceStatusCache' = sourceStatusCache]_vars

C17_DiffSymmetry ==
  \A p \in Procs :
    (pc[p] = "compare_ret" /\ loc[p].sameText) => ~loc[p].cmpRes.hasDifference

\* Two contents that are not the same sequence of characters, one with LF
\* and one with CR LF and white space at the end of a line, compared equal.
C17_Witness ==
  \E p \in Procs :
    /\ pc[p] = "compare_ret" /\ loc[p].sameText
    /\ loc[p].localContent = <<"a", "LF", "b", "LF">>
    /\ loc[p].orgContent = <<"a", "TAB", "SP", "CR", "LF", "b", "SP">>
    /\ ~loc[p].cmpRes.hasDifference

\* C18: for a local file whose component the org does not have, the status
\* query that finds no record returns 'Component not found in org'; the
\* comparison, single or batch, reports hasDifference = false and isNew =
\* true without an error and records that outcome for the file: the single
\* comparison when the retrieve answers 'No source-backed components', the
\* batch comparison for each file of a retrieve with status 0 that the org
\* returned no source for.
C18_NewFileTerminal ==
  [][\A p \in Procs :
       /\ \A d \in RemoteDates :
            GetStatusQueryReturn(p, "empty", d) => loc'[p].fileRes = NotFoundData
       /\ CompareRetrieveReturn(p, "no_source")
            => /\ loc'[p].cmpRes = CompareResult(FALSE, "none", TRUE)
               /\ MapGet(fileDiffCache', loc[p].path) # NoEntry
               /\ fileDiffCache'[loc[p].path].isNew
       /\ \A got \in GotChoices(p, "ok") : \A diff \in DiffChoices(p, got) :
            BatchCompareRetrieveReturn(p, "ok", got, diff)
            => \A f \in Range(CurrentBatch(p)) \ got :
                 /\ f \in DOMAIN loc'[p].cmpMap
                 /\ ~loc'[p].cmpMap[f]
                 /\ MapGet(fileDiffCache', normalizeFilePath(f)) # NoEntry
                 /\ fileDiffCache'[normalizeFilePath(f)].isNew
                 /\ ~fileDiffCache'[normalizeFilePath(f)].hasDifference]_vars

\* C19: when its retrieve times out or fails, compareFileWithOrg returns a
\* result with an error and leaves the diff cache as it was, and a connected
\* compare of a supported file that finds no entry for its path retrieves
\* again; batchCompareFilesWithOrg writes no diff entry and no result for the
\* files of a batch whose retrieve failed.
C19_FailureNotCached ==
  [][\A p \in Procs :
       /\ \A o \in CompareErrors \cup {"nonzero", "not_found"} :
            CompareRetrieveReturn(p, o)
            => /\ loc'[p].cmpRes.error # "none"
               /\ ~loc'[p].cmpRes.hasDifference
               /\ pc'[p] = "compare_ret"
               /\ fileDiffCache' = fileDiffCache
       /\ (/\ CompareAfterConn(p)
           /\ loc[p].connRes.connected
           /\ MapGet(fileDiffCache, loc[p].path) = NoEntry
           /\ getMetadataTypeFromPath(loc[p].path) # NoInfo)
          => pc'[p] = "cmp_retrieve"
       /\ \A o \in BatchCompareOutcomes \ {"ok"} :
            BatchCompareRetrieveReturn(p, o, {}, {})
            => /\ fileDiffCache' = fileDiffCache
               /\ loc'[p].cmpMap = loc[p].cmpMap]_vars

\* A single comparison has returned the error of a retrieve that timed out
\* and a batch comparison has returned after retrieves that failed; the diff
\* cache holds no entry.
C19_Witness ==
  /\ pc[1] = "compare_ret"
  /\ loc[1].cmpRes = CompareResult(FALSE, "err_timeout", FALSE)
  /\ pc[2] = "bcompare_ret"
  /\ loc[2].connRes.connected
  /\ Cardinality(loc[2].dirs) = 2
  /\ loc[2].cmpMap = EmptyMap
  /\ fileDiffCache = EmptyMap

\* C20: whatever way the remote commands end, the promises of
\* checkOrgConnection, getFileOrgStatus, batchGetFileOrgStatus,
\* compareFileWithOrg, batchCompareFilesWithOrg and getAggregateCoverage
\* never reject, and a call that has returned has its value: a connection
\* result, a status entry, a map with an entry for every file, a comparison
\* result, a map of the files compared, or a coverage record or null.
C20_NeverRejects ==
  /\ \A i \in DOMAIN checks : checks[i].result # RejectedResult
  /\ \A p \in Procs :
       /\ loc[p].settle # "rejected"
       /\ loc[p].connRes # RejectedResult
       /\ pc[p] = "check_ret" => loc[p].connRes # NoResult
       /\ pc[p] = "status_ret" => loc[p].fileRes # NoData
       /\ pc[p] = "batch_ret" => DOMAIN loc[p].results = loc[p].files
       /\ pc[p] = "compare_ret" => loc[p].cmpRes # NoCompare
       /\ pc[p] = "bcompare_ret" => DOMAIN loc[p].cmpMap \subseteq Range(loc[p].cfiles)
       /\ pc[p] = "coverage_ret" => loc[p].covRes.kind # "pending"

\* The coverage query of one call and the retrieve of a comparison both
\* timed out, and both calls have returned: null, with nothing cached, and a
\* result that carries the error.
C20_Witness ==
  \E p, q \in Procs :
    /\ pc[p] = "coverage_ret" /\ loc[p].covRes = NullCoverage
    /\ loc[p].qout = "err_timeout" /\ loc[p].settle = "resolved"
    /\ coverageCache = EmptyMap
    /\ pc[q] = "compare_ret" /\ loc[q].settle = "resolved"
    /\ loc[q].cmpRes = CompareResult(FALSE, "err_timeout", FALSE)

\* C21: every metadata query awaited asks for the names of the files its
\* call found uncached, at most 50 of them; the metadata batches of a run
\* hold at most 50 files each and only one of them is queried at a time; every
\* retrieve awaited for a comparison covers at most 10 components.
C21_BatchSizeBound ==
  /\ \A p \in Tasks :
       /\ pc[p] = "bs_query"
          => /\ loc[p].qnames = {BatchName(f) : f \in loc[p].uncached}
             /\ Cardinality(loc[p].qnames) <= MetadataBatchSize
       /\ pc[p] = "bc_retrieve"
          => /\ CurrentBatch(p) # <<>>
             /\ Len(CurrentBatch(p)) <= RetrieveBatchSize
  /\ \A i \in 1..Len(run.batches) : Len(run.batches[i].files) <= MetadataBatchSize
  /\ Cardinality({p \in Tasks : pc[p] = "bs_query"}) <= 1

\* The run over fifty-one classes has queried fifty names and now queries the
\* one left, while the comparison of eleven classes has retrieved ten and now
\* retrieves the eleventh.
C21_Witness ==
  \E m, p \in Tasks :
    /\ pc[m] = "bs_query" /\ run.i = 2 /\ run.metaCount = MetadataBatchSize
    /\ Cardinality(loc[m].qnames) = 1
    /\ pc[p] = "bc_retrieve" /\ loc[p].k = 2
    /\ Len(loc[p].cfiles) = RetrieveBatchSize + 1 /\ Len(CurrentBatch(p)) = 1

\* C22: in a batchCompareFilesWithOrg that was given onFileCompared, every
\* comparison of a file is followed at once, before another file is compared,
\* by the notification for that file and the one for its '-meta.xml' path,
\* and no notification is fired otherwise.
C22_NotifiedBeforeNext ==
  \A p \in Tasks :
    loc[p].cb =>
      LET e == loc[p].events
      IN /\ Len(e) % 3 = 0
         /\ \A i \in 1..Len(e) :
              IF i % 3 = 1
              THEN /\ e[i].ev = "compared"
                   /\ e[i + 1] = [ev |-> "fire", file |-> e[i].file]
                   /\ e[i + 2] = [ev |-> "fire", file |-> Sidecar(e[i].file)]
              ELSE e[i].ev = "fire"

\* A comparison promise of the run has compared the ten files of a retrieve
\* and fired twenty notifications.
C22_Witness ==
  \E w \in Workers :
    /\ loc[w].cb
    /\ Len(loc[w].events) = 3 * CompareBatchSize
    /\ run.perFile >= 2 * CompareBatchSize
    /\ Cardinality({loc[w].events[i].file : i \in 1..Len(loc[w].events)})
         = 2 * CompareBatchSize

\* C23: the percentage that getAggregateCoverage returns and stores for the
\* counts covered and uncovered is 100 * covered / (covered + uncovered)
\* rounded to the nearest integer, a half upwards, when the total is positive,
\* and 0 when it is 0; it lies in 0..100.
C23_PercentageRounded ==
  LET Rounded(d) ==
        LET total == d.covered + d.uncovered
        IN /\ d.percentage \in 0..100
           /\ total = 0 => d.percentage = 0
           /\ total > 0 => /\ 2 * total * d.percentage <= 200 * d.covered + total
                           /\ 200 * d.covered + total < 2 * total * (d.percentage + 1)
  IN /\ \A p \in Tasks : pc[p] = "coverage_ret" => Rounded(loc[p].covRes)
     /\ \A k \in DOMAIN coverageCache : Rounded(coverageCache[k].data)

\* C24: no two comparison calls that wait for their retrieve at the same time
\* use the same scratch directory, and the scratch directory of a call that
\* waits for its retrieve exists: no other call's cleanup has removed it.
C24_ScratchExclusive ==
  LET InFlight == {p \in Tasks : pc[p] \in {"cmp_retrieve", "bc_retrieve"}}
  IN /\ \A p, q \in InFlight : p # q => loc[p].dir # loc[q].dir
     /\ \A p \in InFlight : loc[p].dir \in tempDirs

\* C25: the metadata batches a run starts with hold, between them, one file
\* for each type and name that a file found classifies to, and no type and
\* name twice; the compare batches of a metadata batch hold its files, each
\* once.  No file is given to a second fetch or to a second comparison, and
\* when the run is done every file of the work set has been in one fetch and
\* in one comparison.
C25_DedupePartition ==
  [][LET Identity(f) == getMetadataTypeFromPath(f)
         Flat(batches) == {x \in (1..Len(batches)) \X (1..MetadataBatchSize) :
                             x[2] <= Len(batches[x[1]].files)}
         FileAt(batches, x) == batches[x[1]].files[x[2]]
         WorkSet(batches) == {FileAt(batches, x) : x \in Flat(batches)}
         Once(batches) ==
           \A x, y \in Flat(batches) :
             Identity(FileAt(batches, x)) = Identity(FileAt(batches, y)) => x = y
         Sliced(q) ==
           LET sl == Slices(q, CompareBatchSize)
           IN /\ \A i \in 1..Len(sl) : Len(sl[i]) \in 1..CompareBatchSize
              /\ \A x \in 1..Len(q) :
                   Cardinality({i \in 1..Len(sl) : q[x] \in Range(sl[i])}) = 1
     IN /\ \A m \in PrefetchCallers, allFiles \in DedupeInputs :
             StartPrefetch(m, allFiles)
             => /\ Once(run'.batches)
                /\ {Identity(f) : f \in WorkSet(run'.batches)}
                     = {Identity(f) : f \in Range(allFiles)} \ {NoInfo}
                /\ run'.total = Cardinality(WorkSet(run'.batches))
                /\ \A i \in 1..Len(run'.batches) : Sliced(run'.batches[i].files)
        /\ \A p \in Tasks :
             /\ (loc'[p].files # loc[p].files /\ loc'[p].files # {})
                => loc'[p].files \cap run.fetched = {}
             /\ (loc'[p].cfiles # loc[p].cfiles /\ loc'[p].cfiles # <<>>)
                => Range(loc'[p].cfiles) \cap run.handed = {}
        /\ run'.phase = "done"
           => /\ run'.fetched = WorkSet(run'.batches)
              /\ run'.handed = WorkSet(run'.batches)
              /\ run'.metaCount = run'.total
              /\ run'.cmpCount = run'.total]_vars

\* A run that found eleven classes and the two files of a bundle is done: its
\* work set is the eleven classes and the first file of the bundle, fetched in
\* two batches and compared in three.
C25_Witness ==
  /\ run.phase = "done"
  /\ run.found = RetrieveBatchSize + 3
  /\ run.total = RetrieveBatchSize + 2
  /\ Len(run.batches) = 2
  /\ BundleFile("Wc", "main") \in run.handed
  /\ BundleFile("Wc", "helper") \notin run.handed
  /\ run.cmpCount = run.total

\* C26: when a run is done and has stored the status and the comparison of a
\* file f, then for every path g of the same component (the '-meta.xml' of f,
\* another file of f's bundle) getFileDiffStatus(g) gives what it gives for f,
\* and getFileOrgStatus(g, true) returns the status stored for f without a
\* query.
C26_IdentityCollapsed ==
  LET Identity(f) == getMetadataTypeFromPath(normalizeFilePath(f))
  IN \A f \in run.handed, g \in CollapsePaths :
       (/\ run.phase = "done"
        /\ Identity(f) = Identity(g)
        /\ StatusCacheAny(f) # NoEntry
        /\ MapGet(fileDiffCache, normalizeFilePath(f)) # NoEntry)
       => /\ getFileDiffStatus(g) = getFileDiffStatus(f)
          /\ \A p \in CollapseLookupCallers :
               (pc[p] = "status_ret" /\ loc[p].path = g)
               => /\ loc[p].fileRes = StatusCacheAny(f).data
                  /\ loc[p].queries = 0

\* C28: the result that the first checkOrgConnection() after a clearOrgCache()
\* returns never comes from a connection check that was in flight when the
\* cache was cleared.
C28_CheckStartedAfterClear ==
  \A p \in ClearCallers :
    (pc[p] = "check_ret" /\ loc[p].mode \in {"owner", "joined"})
    => loc[p].waitOn \notin loc[p].stale

\* C29: when a retrieve batch of batchCompareFilesWithOrg finds that a file's
\* normalized contents differ and the status cache holds no LastModifiedDate
\* for the file (no entry, or an entry of a component not found), the diff
\* entry stored for the file has hasDifference = true and isOrgNewer = false.
C29_UnknownDirectionIsLocal ==
  [][\A p \in Procs :
       (pc[p] = "bc_retrieve" /\ loc'[p] # loc[p])
       => \A f \in Range(CurrentBatch(p)) :
            LET NoDate(key) ==
                  \/ MapGet(sourceStatusCache, key) = NoEntry
                  \/ MapGet(sourceStatusCache, key).data.lastModifiedDate = 0
                stored == MapGet(fileDiffCache', normalizeFilePath(f))
            IN (/\ f \in DOMAIN loc'[p].cmpMap
                /\ loc'[p].cmpMap[f]
                /\ NoDate(normalizeFilePath(f))
                /\ NoDate(f))
               => /\ stored # NoEntry
                  /\ stored.hasDifference
                  /\ ~stored.isOrgNewer]_vars

\* One comparison found both files different: the class, of which the status
\* cache holds nothing, and the trigger, which it holds as not found in the
\* org; both differences are stored as local.
C29_Witness ==
  \E p \in Procs :
    /\ pc[p] = "bcompare_ret"
    /\ loc[p].cmpMap = [f \in Range(DirectionFiles) |-> TRUE]
    /\ MapGet(sourceStatusCache, SourcePath("A")) = NoEntry
    /\ MapGet(sourceStatusCache, SourcePath("T")) # NoEntry
    /\ sourceStatusCache[SourcePath("T")].data = NotFoundData
    /\ \A f \in Range(DirectionFiles) :
         /\ MapGet(fileDiffCache, f) # NoEntry
         /\ fileDiffCache[f].hasDifference
         /\ ~fileDiffCache[f].isOrgNewer

\* C30: every entry of the diff cache that has isOrgNewer also has
\* hasDifference, and so has every result of getFileDiffStatus, whatever the
\* path it is asked about.
C30_NewerImpliesDifference ==
  /\ \A key \in DOMAIN fileDiffCache :
       fileDiffCache[key].isOrgNewer => fileDiffCache[key].hasDifference
  /\ \A f \in AllPaths :
       getFileDiffStatus(f).isOrgNewer => getFileDiffStatus(f).hasDifference

\* The class and the trigger were both changed in the org after the local
\* files were; the comparison found the class different and the trigger
\* equal, and the lookup through the class's '-meta.xml' says the org is newer.
C30_Witness ==
  /\ \A f \in Range(DirectionFiles) :
       /\ MapGet(sourceStatusCache, f) # NoEntry
       /\ sourceStatusCache[f].data.lastModifiedDate > LocalMTime
       /\ MapGet(fileDiffCache, f) # NoEntry
  /\ fileDiffCache[SourcePath("A")].hasDifference
  /\ ~fileDiffCache[SourcePath("T")].hasDifference
  /\ getFileDiffStatus(Sidecar(SourcePath("A"))).isOrgNewer
  /\ getFileDiffStatus(SourcePath("T")).isCompared

\* C27: whatever its queries and retrieves answer, time out or fail with, a
\* prefetch run that has started ends, and when it has ended every file of
\* its metadata batches has been given to a fetch and to a comparison.
C27_RunCompletes ==
  LET WorkSet == UNION {Range(run.batches[i].files) : i \in 1..Len(run.batches)}
  IN (run.phase = "running")
     ~> (run.phase = "done" /\ run.fetched = WorkSet /\ run.handed = WorkSet)

\* A run over a class and a trigger has ended: the query and the retrieve of
\* the class's batch timed out, and the trigger's batch, which came after it,
\* was fetched and compared.
C27_Witness ==
  /\ run.phase = "done"
  /\ run.total = 2
  /\ orgConnectionCache.connected
  /\ MapGet(sourceStatusCache, SourcePath("A")) = NoEntry
  /\ MapGet(fileDiffCache, SourcePath("A")) = NoEntry
  /\ MapGet(sourceStatusCache, SourcePath("T")) # NoEntry
  /\ MapGet(fileDiffCache, SourcePath("T")) # NoEntry

C32_WeightedProgress ==
  (run.phase # "idle" /\ run.metaCount > 0)
  => /\ run.progress = (3 * run.metaCount + 7 * run.cmpCount) \div 10
     /\ run.progress <= run.total
     /\ (run.metaCount = run.total /\ run.cmpCount = run.total) => run.progress = run.total

\* C33: when a command prints warning lines before a payload that reports
\* success, the function that awaits it gets the payload: the connection
\* check says connected, the single query returns the record, the batch query
\* ends without an error, the single retrieve reports the difference and the
\* batch retrieve compares the files it retrieved.
C33_WarningsTolerated ==
  [][\A out \in {x \in CliOutputs : Len(x) > 1 /\ "warn[" \notin Range(x)} :
       /\ \A i \in 1..MaxChecks :
            ConnRemoteReturn(i, Response("conn_remote", out, "ok"))
            => orgConnectionCache'.connected
       /\ \A p \in WarnCallers :
            /\ \A d \in StatusDates :
                 GetStatusQueryReturn(p, Response("gs_query", out, "found"), d)
                 => loc'[p].fileRes = StatusData(d)
            /\ \A d \in StatusDates :
                 BatchQueryReturn(p, Response("bs_query", out, "ok"),
                                  IF pc[p] = "bs_query" THEN loc[p].qnames ELSE {}, d)
                 => loc'[p].qout = "ok"
            /\ CompareRetrieveReturn(p, Response("cmp_retrieve", out, "differ"))
               => loc'[p].cmpRes.hasDifference
            /\ \A got \in GotChoices(p, "ok") :
                 BatchCompareRetrieveReturn(p, Response("bc_retrieve", out, "ok"), got, {})
                 => got \subseteq DOMAIN loc'[p].cmpMap]_vars

\* C34: when provideFileDecoration computes a decoration (no cached one, the
\* org connected), it is '+' exactly when the status says the component was
\* not found, none when the status carries another error, and otherwise the
\* pull arrow exactly when there is a difference and the org is newer, the
\* push arrow exactly when there is a difference and the org is not newer,
\* the checkmark exactly when there is no difference, the file was compared
\* and lastModifiedBy is known, and none in the remaining case.
C34_DecorationClassification ==
  [][\A p \in DecorationCallers :
       ProvideFileDecorationAfterStatus(p) =>
         LET st == loc[p].fileRes
             d == loc[p].diff
             deco == loc'[p].deco
             found == st.error = "none"
         IN /\ deco \in {"plus", "pull", "push", "check", "none"}
            /\ deco = "plus" <=> st.error = "Component not found in org"
            /\ st.error \notin {"none", "Component not found in org"} => deco = "none"
            /\ deco = "pull" <=> (found /\ d.hasDifference /\ d.isOrgNewer)
            /\ deco = "push" <=> (found /\ d.hasDifference /\ ~d.isOrgNewer)
            /\ deco = "check" <=> (found /\ ~d.hasDifference /\ d.isCompared
                                    /\ st.lastModifiedBy # "")]_vars

\* A decoration was computed for a file that has a record but was never
\* compared: none, and nothing cached.
C34_Witness ==
  \E p \in DecorationCallers :
    /\ pc[p] = "deco_ret"
    /\ loc[p].fileRes.error = "none"
    /\ loc[p].fileRes.lastModifiedBy # ""
    /\ ~loc[p].diff.isCompared
    /\ loc[p].deco = "none"
    /\ DOMAIN decorationCache = {}

\* C35: once refresh all has cleared the caches, a fetch or a comparison that
\* was started before the clear writes nothing into the status cache or the
\* diff cache when it comes back.
C35_NoStaleWrite ==
  [][\A p \in StaleCallers :
       (run.phase # "idle" /\ pc'[p] # pc[p])
       => (sourceStatusCache' = sourceStatusCache /\ fileDiffCache' = fileDiffCache)]_vars

\* C36: while at least one run has shown progress and has not finished,
\* isPrefetchInProgress() is true and the progress item is not hidden, also
\* when another run has finished in the meantime.
C36_FlagWhileActive ==
  (\E p \in Procs : pc[p] = "pf_shown") => (isPrefetchInProgress /\ prefetchBar.shown)

\* C37: the guard pendingOrgConnectionCheck holds a promise only while that
\* check is in flight or, once it has settled, until the caller that started
\* it resumes from its await; a guard that is set is always reset, whatever
\* the outcome and however many callers wait; and with the guard reset a
\* call that finds no fresh cache starts a new check.
C37_GuardNeverSticks ==
  /\ [](pendingOrgConnectionCheck # 0 =>
          /\ pendingOrgConnectionCheck \in 1..Len(checks)
          /\ \E p \in Tasks : pc[p] = "conn_own" /\ loc[p].waitOn = pendingOrgConnectionCheck
          /\ \/ pendingOrgConnectionCheck \in InFlightChecks
             \/ ENABLED (\E p \in Tasks : ConnOwnerResume(p)))
  /\ []((pendingOrgConnectionCheck = 0 /\ cliInstalled # "false" /\ ~OrgCacheFresh)
          => ConnDecide(pendingOrgConnectionCheck, checks).how = "owner")
  /\ (pendingOrgConnectionCheck # 0) ~> (pendingOrgConnectionCheck = 0)

\* A check has settled and the guard was reset; after the TTL a second check
\* is in flight while a second caller waits for it too.
C37_Witness ==
  /\ ticks = 1
  /\ Len(checks) = 2
  /\ checks[1].state = "settled"
  /\ pendingOrgConnectionCheck = 2
  /\ 2 \in InFlightChecks
  /\ \E p \in Tasks : pc[p] = "conn_join" /\ loc[p].waitOn = 2

\* C38: when the notification for a compared file, or the one for its
\* '-meta.xml' path, is fired, the diff cache answers a lookup of that path
\* with the result just computed, and the decoration cache holds no entry for
\* the file and its sidecar.
C38_NotificationAfterWrite ==
  [][\A w \in Workers, o \in {"ok", "err_timeout"} : \A r \in RetrievedChoices(w, o) :
       (loc[w].cb /\ BatchCompareRetrieveReturn(w, o, r.got, r.diff))
       => \A f \in r.got : \A x \in {f, Sidecar(f)} :
            /\ \E i \in 1..Len(loc'[w].events) :
                 loc'[w].events[i] = [ev |-> "fire", file |-> x]
            /\ getFileDiffStatus(x)'.isCompared
            /\ getFileDiffStatus(x)'.hasDifference = (f \in r.diff)
            /\ getParentFilePath(x) \notin DOMAIN decorationCache'
            /\ x \notin DOMAIN decorationCache']_vars

\* The provider had decorated the class, which the org did not have, with
\* '+'; the run then compared the class and fired its notifications, and the
\* decoration cache holds no entry any more.
C38_Witness ==
  /\ run.phase = "running" /\ run.final = 0
  /\ SourcePath("A") \in run.emitted
  /\ \E p \in NotifyCallers : pc[p] = "deco_ret" /\ loc[p].deco = "plus"
  /\ DOMAIN decorationCache = {}
  /\ getFileDiffStatus(SourcePath("A")).isCompared

\* C39: when refresh(uri) has run for the uris that were queued, the
\* decoration cache holds no entry that provideFileDecoration(uri) would
\* return, for a source file and for its '-meta.xml' sidecar alike.
C39_RefreshEvicts ==
  [][RefreshTimerFires =>
       \A uri \in pendingUpdates : getParentFilePath(uri) \notin DOMAIN decorationCache']_vars

\* C40: normalizeContent applied to a content it has normalized gives that
\* content again, so a raw content and its normalization compare as equal.
C40_NormalizeIdempotent ==
  \A p \in ContentCallers :
    pc[p] \in {"cc_read", "compare_ret"} =>
      /\ loc[p].orgContent = normalizeContent(loc[p].localContent)
      /\ normalizeContent(loc[p].orgContent) = loc[p].orgContent
      /\ pc[p] = "compare_ret" => ~loc[p].cmpRes.hasDifference

====
